---- MODULE Spec2Model ----
(***************************************************************************)
(* ethosUSD on Tempo: the claim ledger (routes/api/claim.ts, lib/claims.ts)*)
(* with its signature gate, the whitelist reconciliation engine            *)
(* (lib/whitelist.ts) and the score provider client (lib/ethos.ts) as      *)
(* state machines.  Every await of a handler is one step, so that          *)
(* concurrent requests interleave exactly where the runtime lets them.     *)
(***************************************************************************)
EXTENDS Integers, Sequences, FiniteSets, TLC

VARIABLES
    \* ---- claim ledger side ----
    pc,             \* per request: the await the handler is suspended at
    req,            \* per request: the request as received
    st,             \* per request: the handler's local variables
    resp,           \* per request: the response returned
    balance,        \* token contract: balanceOf per canonical address
    mints,          \* token contract: mint transactions, by hash (index)
    claimsFile,     \* ./data/claims.json: the persisted list of records
    providerCalls,  \* requests that called the score provider
    faults,         \* environment failures injected so far (RPC, file system)
    \* ---- whitelist reconciliation side ----
    authorized,     \* registry: isAuthorized(policyId, address)
    regTxs,         \* registry: modifyPolicyWhitelist transactions, by hash
    provider,       \* reputation provider: score per canonical address
    sync,           \* the running syncWhitelist invocation's local variables
    whitelistedAddresses, \* module-level in-memory cache
    runs,           \* finished syncWhitelist invocations, oldest first
    policyId,       \* CONTRACTS.POLICY_ID as configured (ETHOS_POLICY_ID)
    call,           \* the last direct call of a client function and its result
    \* ---- bulk whitelist tools (scripts/) ----
    chain,          \* registry policy counter, policies created, token policy
    bulk,           \* the running bulk tool's local variables
    \* ---- browser wallet side (lib/wallet.ts) ----
    wallet          \* session storage, disconnect listeners, calls in flight

claimVars == <<pc, req, st, resp, balance, mints, claimsFile, providerCalls,
               faults>>
syncVars  == <<authorized, regTxs, provider, sync, whitelistedAddresses, runs,
               policyId, call, chain, bulk, wallet>>
vars      == <<pc, req, st, resp, balance, mints, claimsFile, providerCalls,
               faults,
               authorized, regTxs, provider, sync, whitelistedAddresses, runs,
               policyId, call, chain, bulk, wallet>>

----------------------------------------------------------------------------
(* Bounds of the model *)

MaxRequests == 2
MaxSyncRuns == 2
MaxFaults == 1

Requests == 1..MaxRequests

----------------------------------------------------------------------------
(* Addresses and String.prototype.toLowerCase on them *)

RawAddrs == {"0xaa", "0xAA", "0xbb"}

LowerAddrs == {"0xaa", "0xbb"}

ToLowerCase(a) ==
    CASE a = "0xAA" -> "0xaa"
      [] a = "0xBB" -> "0xbb"
      [] a = "0xCC" -> "0xcc"
      [] OTHER      -> a

\* /^0x[a-fA-F0-9]{40}$/ on the (shortened) addresses of the model
AddressFormatOk(a) == a \in {"0xaa", "0xAA", "0xbb", "0xBB", "0xcc", "0xCC"}

----------------------------------------------------------------------------
(* Program constants *)

MAX_SIGNATURE_AGE_MS == 300000
MIN_ETHOS_SCORE == 1400
CLAIM_UNIT == 1000000
POLICY_ID == 145

\* ETHOS_POLICY_ID as the environment may set it: the default, or zero
PolicyIds == {0, POLICY_ID}


----------------------------------------------------------------------------
(* Claim ledger: records, the in-memory Map and the JSON file *)

\* XP is a number with a fractional part: the model counts it in tenths.
XpTenths == {0, 2507}

\* Variant: rounds to the nearest whole number
Floor_Nearest(xpTenths) ==
    (xpTenths + 5) \div 10

\* Math.floor(xp)
Floor(xpTenths) ==
    xpTenths \div 10

\* "no record" (null / undefined) in a field that otherwise holds a ClaimRecord
NoRecord == [address |-> "", amount |-> 0, xp |-> 0, txHash |-> 0, timestamp |-> 0]

\* Date.now() as read when the record of a request signed at `timestamp` is
\* built: some instant after the request was accepted, one per request
Clock(timestamp) == {timestamp + MAX_SIGNATURE_AGE_MS + 2}

\* Map.prototype.set on an insertion-ordered map kept as a sequence of records
MapSet(m, rec) ==
    IF \E i \in 1..Len(m) : m[i].address = rec.address
    THEN [i \in 1..Len(m) |-> IF m[i].address = rec.address THEN rec ELSE m[i]]
    ELSE Append(m, rec)

MapHas(m, key) == \E i \in 1..Len(m) : m[i].address = key

MapGet(m, key) ==
    IF MapHas(m, key)
    THEN m[CHOOSE i \in 1..Len(m) : m[i].address = key]
    ELSE NoRecord

\* new Map(records.map(r => [r.address.toLowerCase(), {...r, address: lower}]))
RECURSIVE MapFromRecords(_)
MapFromRecords(records) ==
    IF records = <<>> THEN <<>>
    ELSE LET n == Len(records)
             r == records[n]
         IN  MapSet(MapFromRecords(SubSeq(records, 1, n - 1)),
                    [r EXCEPT !.address = ToLowerCase(r.address)])

\* What a reader finds in the file while Deno.writeTextFile has truncated it
\* and not yet written all of the new text
Partial ==
    [address |-> "<partial>", amount |-> 0, xp |-> 0, txHash |-> 0, timestamp |-> 0]

\* JSON.parse(content) returns (it throws on a partially written file)
ParsesAsJson(content) == \A i \in 1..Len(content) : content[i] # Partial

\* loadClaims: the file parsed into a Map; a file that cannot be read or
\* parsed is an empty Map
loadClaims(content, readOk) ==
    IF readOk /\ ParsesAsJson(content) THEN MapFromRecords(content) ELSE <<>>

\* saveClaims: Array.from(claims.values()) written as the whole file
saveClaims(claims) == claims

\* getClaimRecord: claims.get(address.toLowerCase()) || null
getClaimRecord(content, readOk, address) ==
    MapGet(loadClaims(content, readOk), ToLowerCase(address))

\* hasClaimed: claims.has(address.toLowerCase())
hasClaimed(content, readOk, address) ==
    MapHas(loadClaims(content, readOk), ToLowerCase(address))

----------------------------------------------------------------------------
(* Claim endpoint: request, local variables, response *)

\* getClaimMessage: the plaintext embeds the lower-cased address and timestamp
getClaimMessage(address, timestamp) == <<ToLowerCase(address), timestamp>>

\* Variant: the recovered signer is not compared with the address
verifyMessage_AnySigner(address, message, signature) ==
    signature.message = message

\* viem verifyMessage: the signer recovered from the signature over `message`
\* equals `address`
verifyMessage(address, message, signature) ==
    /\ signature.message = message
    /\ signature.signer = ToLowerCase(address)

NoStatus ==
    [canClaim |-> FALSE, amount |-> 0, xp |-> 0, alreadyClaimed |-> FALSE,
     claimRecord |-> NoRecord, error |-> ""]

NoUser == [found |-> FALSE, xp |-> 0]

InitLocals ==
    [claimedOnChain |-> FALSE, claimStatus |-> NoStatus,
     mintHash |-> 0, receipt |-> "", claims |-> <<>>]

\* A signature as sent: none, one that does not parse, or one made by `signer`
\* over `message`
NoSignature == [kind |-> "none", signer |-> "", message |-> <<"", 0>>]

BadSignature == [kind |-> "malformed", signer |-> "", message |-> <<"", 0>>]

Signed(signer, message) ==
    [kind |-> "signed", signer |-> signer, message |-> message]

\* The JSON body {address, signature, timestamp} and the instant (Date.now())
\* at which the handler looks at it.  tsType is typeof timestamp.
NoRequest ==
    [address |-> "", tsType |-> "number", timestamp |-> 0,
     signature |-> NoSignature, now |-> 0]

Body(rawAddress, signature, tsType, timestamp, now) ==
    [address |-> rawAddress, tsType |-> tsType, timestamp |-> timestamp,
     signature |-> signature, now |-> now]

NoResponse ==
    [status |-> 0, success |-> FALSE, error |-> "",
     alreadyClaimed |-> FALSE, claimRecord |-> NoRecord, txHash |-> 0,
     amount |-> 0]

ErrorResponse(code, msg) ==
    [NoResponse EXCEPT !.status = code, !.error = msg]

\* claim.ts 83-100: the 400 answer when claimStatus.canClaim is false
NotClaimableResponse(cs) ==
    [NoResponse EXCEPT
        !.status = 400,
        !.error = IF cs.alreadyClaimed THEN "You have already claimed your $ethosUSD"
                  ELSE IF cs.error # "" THEN cs.error
                  ELSE "Not eligible to claim",
        !.alreadyClaimed = cs.alreadyClaimed,
        !.claimRecord = cs.claimRecord]

\* Variant: the record found is not passed on
AlreadyClaimedStatus_NoRecord(existingClaim) ==
    [canClaim |-> FALSE, amount |-> 0, xp |-> existingClaim.xp,
     alreadyClaimed |-> TRUE, claimRecord |-> NoRecord, error |-> ""]

\* claims.ts 146-168: the answer of getClaimableAmount for a claimed address
AlreadyClaimedStatus(existingClaim) ==
    [canClaim |-> FALSE, amount |-> 0, xp |-> existingClaim.xp,
     alreadyClaimed |-> TRUE, claimRecord |-> existingClaim, error |-> ""]

\* claims.ts 174-183: XP > 0 gives floor(xp) * 1_000_000 minor units
ClaimableStatus(xp) ==
    [canClaim |-> TRUE, amount |-> Floor(xp) * CLAIM_UNIT, xp |-> xp,
     alreadyClaimed |-> FALSE, claimRecord |-> NoRecord, error |-> ""]

\* claims.ts 188-211: no XP; the score lookup tells "no profile" from "no XP"
NotEligibleStatus(userData, hasProfile) ==
    LET xp == IF userData.found THEN userData.xp ELSE 0
    IN  [canClaim |-> FALSE, amount |-> 0, xp |-> IF hasProfile THEN xp ELSE 0,
         alreadyClaimed |-> FALSE, claimRecord |-> NoRecord,
         error |-> IF ~hasProfile THEN "No Ethos profile found"
                   ELSE IF xp = 0 THEN "No Contributor XP yet"
                   ELSE "Unable to fetch your Contributor XP"]

----------------------------------------------------------------------------
(* Claim endpoint: the steps of handler.POST *)

\* An operation of the environment (an RPC call, a file access) goes well, or
\* fails while the model's budget of failures lasts
Outcome(ok) ==
    IF ok THEN faults' = faults
    ELSE faults < MaxFaults /\ faults' = faults + 1

\* The handler returns `response`: the request, the Map it loaded and the
\* transaction it waited for are gone; what getClaimableAmount answered (`cs`)
\* stays on record
Return(r, response, cs) ==
    /\ pc' = [pc EXCEPT ![r] = "done"]
    /\ resp' = [resp EXCEPT ![r] = response]
    /\ st' = [st EXCEPT ![r] = [InitLocals EXCEPT
                                   !.claimedOnChain = st[r].claimedOnChain,
                                   !.claimStatus = cs]]
    /\ req' = [req EXCEPT ![r] = NoRequest]

Finish(r, response) == Return(r, response, st[r].claimStatus)

\* The handler moves on to its next await with local variables `locals`
Goto(r, label, locals) ==
    /\ pc' = [pc EXCEPT ![r] = label]
    /\ st' = [st EXCEPT ![r] = locals]
    /\ UNCHANGED <<req, resp>>

\* What handler.POST does with the answer of getClaimableAmount: 400 unless
\* canClaim, else on to the mint (claim.ts 81-107).
AfterClaimable(r, cs) ==
    IF ~cs.canClaim
    THEN Return(r, NotClaimableResponse(cs), cs)
    ELSE Goto(r, "mint", [st[r] EXCEPT !.claimStatus = cs])

\* Variant: an age equal to the window is already too old
SignatureExpired_AtWindow(tsType, timestamp, now) ==
    tsType # "number" \/ timestamp > now \/ now - timestamp >= MAX_SIGNATURE_AGE_MS

\* claim.ts 48: typeof timestamp !== "number" || timestamp > now ||
\* now - timestamp > MAX_SIGNATURE_AGE_MS
SignatureExpired(tsType, timestamp, now) ==
    tsType # "number" \/ timestamp > now \/ now - timestamp > MAX_SIGNATURE_AGE_MS

\* !timestamp: 0 (and the empty string, kept as 0) is falsy
Falsy(timestamp) == timestamp = 0

\* claim.ts 19-78: the checks handler.POST makes on a body before it looks at
\* the ledger, in the code's order.  verifyMessage is a computation: its await
\* touches nothing shared.
HandlePost(r, body) ==
    LET address == ToLowerCase(body.address)
        message == getClaimMessage(address, body.timestamp)
    IN  /\ IF body.address = ""
           THEN Finish(r, ErrorResponse(400, "Address required"))
           ELSE IF body.signature.kind = "none"
                   \/ Falsy(body.timestamp)
           THEN Finish(r, ErrorResponse(400, "Signature verification required"))
           ELSE IF ~AddressFormatOk(address)
           THEN Finish(r, ErrorResponse(400, "Invalid address format"))
           ELSE IF SignatureExpired(body.tsType, body.timestamp, body.now)
           THEN Finish(r, ErrorResponse(400, "Signature expired"))
           ELSE IF body.signature.kind = "malformed"
           THEN Finish(r, ErrorResponse(400, "Invalid signature format"))
           ELSE IF ~verifyMessage(address, message, body.signature)
           THEN Finish(r, ErrorResponse(403, "Invalid signature"))
           ELSE /\ pc' = [pc EXCEPT ![r] = "balance"]
                /\ req' = [req EXCEPT ![r] = [body EXCEPT !.address = address]]
                /\ UNCHANGED <<st, resp>>
        /\ UNCHANGED <<balance, mints, claimsFile, providerCalls, faults>>
        /\ UNCHANGED syncVars

\* The bodies the claim ledger's specification sends: well-formed, signed by
\* the address or by another, at the edge of the freshness window or just past
\* it; each request signs its own timestamp
ClaimBodies(r) ==
    {Body(rawAddress, Signed(signer, getClaimMessage(rawAddress, 1000 + r)),
          "number", 1000 + r, now) :
        rawAddress \in RawAddrs, signer \in LowerAddrs,
        now \in {1000 + r + MAX_SIGNATURE_AGE_MS,
                 1000 + r + MAX_SIGNATURE_AGE_MS + 1}}

\* A request arrives and handler.POST runs up to its first await on shared state
Post(r) ==
    /\ pc[r] = "idle"
    /\ \E body \in ClaimBodies(r) : HandlePost(r, body)

\* claims.ts 22-41: balanceOf(address) > 0n; a failed read counts as false
hasClaimedOnChain(address, readOk) ==
    IF readOk THEN balance[ToLowerCase(address)] > 0 ELSE FALSE

\* Variant: only the local record counts
IsAlreadyClaimed_LocalOnly(claimedOnChain, existingClaim) ==
    existingClaim # NoRecord

\* claims.ts 146 and 160: the address counts as claimed when the balance read
\* said so or a local record exists
IsAlreadyClaimed(claimedOnChain, existingClaim) ==
    claimedOnChain \/ existingClaim # NoRecord

\* Variant: any receipt counts as a confirmation
MintConfirmed_AnyReceipt(receiptStatus) ==
    receiptStatus \in {"success", "reverted"}

\* claim.ts 122: only a receipt with status success lets the handler go on
MintConfirmed(receiptStatus) ==
    receiptStatus = "success"

\* claims.ts 145: await hasClaimedOnChain(address)
BalanceRead(r) ==
    /\ pc[r] = "balance"
    /\ \E readOk \in BOOLEAN :
         /\ Outcome(readOk)
         /\ Goto(r, "record",
                 [st[r] EXCEPT !.claimedOnChain =
                                  hasClaimedOnChain(req[r].address, readOk)])
    /\ UNCHANGED <<balance, mints, claimsFile, providerCalls>>
    /\ UNCHANGED syncVars

\* claims.ts 146-168: await getClaimRecord(address) on either branch
GetClaimRecord(r) ==
    /\ pc[r] = "record"
    /\ \E readOk \in BOOLEAN :
         LET existingClaim == getClaimRecord(claimsFile, readOk, req[r].address)
         IN  /\ Outcome(readOk)
             /\ IF IsAlreadyClaimed(st[r].claimedOnChain, existingClaim)
                THEN AfterClaimable(r, AlreadyClaimedStatus(existingClaim))
                ELSE Goto(r, "userData", st[r])
    /\ UNCHANGED <<balance, mints, claimsFile, providerCalls>>
    /\ UNCHANGED syncVars

\* A score as the provider reports it; found = FALSE is "no profile" (null)
NoScore == [found |-> FALSE, score |-> 0]

Score(n) == [found |-> TRUE, score |-> n]

\* How one HTTP exchange with the provider ends: 2xx, 404, another non-2xx
\* status, or fetch rejecting (network failure)
HttpOutcomes == {"ok", "notFound", "serverError", "networkError"}

HttpFailed(http) == http \in {"serverError", "networkError"}

\* What GET /internal/users/address:<a> can bring: a 2xx body with a user (its
\* xpTotal) or without one, or no usable body
UserResponses ==
    {[http |-> "ok", user |-> u] :
        u \in {NoUser} \cup {[found |-> TRUE, xp |-> x] : x \in XpTenths}}
    \cup {[http |-> h, user |-> NoUser] : h \in HttpOutcomes \ {"ok"}}

\* What GET /score/address can bring
ScoreResponses ==
    {[http |-> "ok", score |-> Score(MIN_ETHOS_SCORE)]}
    \cup {[http |-> h, score |-> NoScore] : h \in HttpOutcomes \ {"ok"}}

\* ethos.ts getUserData (whitelist.ts 245-286): the user of a 2xx body, null
\* when the body has none, null for a 404, and null again from the catch that
\* takes the throw for any other status and a rejected fetch
getUserData(response) ==
    IF response.http = "ok" THEN response.user
    ELSE IF response.http = "notFound" THEN NoUser
    ELSE NoUser

\* ethos.ts getScoreByAddress (whitelist.ts 289-317): the score of a 2xx body,
\* null for a 404, and null from the catch for everything else
getScoreByAddress(response) ==
    IF response.http = "ok" THEN response.score
    ELSE IF response.http = "notFound" THEN NoScore
    ELSE NoScore

\* claims.ts 171-211: await getUserData(address) and, without XP, await
\* getScoreByAddress(address).  The two calls touch nothing shared, so they are
\* one step; a failed exchange is a failure of the environment.
ProviderLookup(r) ==
    /\ pc[r] = "userData"
    /\ providerCalls' = providerCalls \cup {r}
    /\ \E userResponse \in UserResponses, scoreResponse \in ScoreResponses :
         LET userData  == getUserData(userResponse)
             scoreData == getScoreByAddress(scoreResponse)
         IN  IF userData.found /\ userData.xp > 0
             THEN /\ scoreResponse.http = "ok"
                  /\ Outcome(TRUE)
                  /\ AfterClaimable(r, ClaimableStatus(userData.xp))
             ELSE /\ Outcome(~HttpFailed(userResponse.http)
                             /\ ~HttpFailed(scoreResponse.http))
                  /\ AfterClaimable(r, NotEligibleStatus(userData, scoreData.found))
    /\ UNCHANGED <<balance, mints, claimsFile>>
    /\ UNCHANGED syncVars

\* claim.ts 104-117: await walletClient.writeContract(mint(address, amount));
\* a throw lands in the handler's catch (145-154)
Mint(r) ==
    /\ pc[r] = "mint"
    /\ \E submitted \in BOOLEAN :
         /\ Outcome(submitted)
         /\ IF submitted
            THEN /\ mints' = Append(mints,
                               [to |-> ToLowerCase(req[r].address),
                                amount |-> st[r].claimStatus.amount,
                                status |-> "pending"])
                 /\ Goto(r, "wait", [st[r] EXCEPT !.mintHash = Len(mints) + 1])
            ELSE /\ Finish(r, ErrorResponse(500, "mint submission failed"))
                 /\ UNCHANGED mints
    /\ UNCHANGED <<balance, claimsFile, providerCalls>>
    /\ UNCHANGED syncVars

\* Token contract: a pending mint is included in a block, and succeeds
\* (crediting the balance) or reverts
MineMint(h) ==
    /\ h \in 1..Len(mints)
    /\ mints[h].status = "pending"
    /\ \E status \in {"success", "reverted"} :
         /\ Outcome(status = "success")
         /\ mints' = [mints EXCEPT ![h].status = status]
         /\ balance' = IF status = "success"
                       THEN [balance EXCEPT ![mints[h].to] = @ + mints[h].amount]
                       ELSE balance
    /\ UNCHANGED <<pc, req, st, resp, claimsFile, providerCalls>>
    /\ UNCHANGED syncVars

\* claim.ts 119-129: await waitForTransactionReceipt; it returns the receipt of
\* a mined transaction, or throws (timeout, RPC error) into the catch
WaitReceipt(r) ==
    /\ pc[r] = "wait"
    /\ \/ /\ mints[st[r].mintHash].status # "pending"
          /\ Outcome(TRUE)
          /\ IF ~MintConfirmed(mints[st[r].mintHash].status)
             THEN Finish(r, ErrorResponse(500, "Mint transaction failed"))
             ELSE Goto(r, "recLoad",
                       [st[r] EXCEPT !.receipt = mints[st[r].mintHash].status])
       \/ /\ Outcome(FALSE)
          /\ Finish(r, ErrorResponse(500, "waiting for the receipt failed"))
    /\ UNCHANGED <<balance, mints, claimsFile, providerCalls>>
    /\ UNCHANGED syncVars

\* claims.ts 117: recordClaim's await loadClaims()
RecordLoad(r) ==
    /\ pc[r] = "recLoad"
    /\ \E readOk \in BOOLEAN :
         /\ Outcome(readOk)
         /\ Goto(r, "recSave",
                 [st[r] EXCEPT !.claims = loadClaims(claimsFile, readOk)])
    /\ UNCHANGED <<balance, mints, claimsFile, providerCalls>>
    /\ UNCHANGED syncVars

\* Variant: the address is stored as it was passed
recordClaim_AsPassed(claims, address, amount, xp, txHash, now) ==
    MapSet(claims, [address |-> address, amount |-> amount,
                    xp |-> xp, txHash |-> txHash, timestamp |-> now])

\* claims.ts 119-127: the record built by recordClaim and claims.set
recordClaim(claims, address, amount, xp, txHash, now) ==
    MapSet(claims, [address |-> ToLowerCase(address), amount |-> amount,
                    xp |-> xp, txHash |-> txHash, timestamp |-> now])

\* claims.ts 119-129 and claim.ts 132-144: the record is set in the loaded Map,
\* the Map is written back, and the handler answers success; a failed write
\* throws into the handler's catch
RecordSave(r) ==
    /\ pc[r] = "recSave"
    /\ \E now \in Clock(req[r].timestamp), writeOk \in BOOLEAN :
         /\ Outcome(writeOk)
         /\ IF writeOk
            THEN /\ claimsFile' = saveClaims(
                       recordClaim(st[r].claims, req[r].address,
                                   st[r].claimStatus.amount, st[r].claimStatus.xp,
                                   st[r].mintHash, now))
                 /\ Finish(r, [NoResponse EXCEPT
                                  !.status = 200, !.success = TRUE,
                                  !.txHash = st[r].mintHash,
                                  !.amount = st[r].claimStatus.amount])
            ELSE /\ Finish(r, ErrorResponse(500, "writing the ledger failed"))
                 /\ UNCHANGED claimsFile
    /\ UNCHANGED <<balance, mints, providerCalls>>
    /\ UNCHANGED syncVars

\* Token contract: a holder moves its whole balance away
TransferOut(a) ==
    /\ balance[a] > 0
    /\ Outcome(FALSE)
    /\ balance' = [balance EXCEPT ![a] = 0]
    /\ UNCHANGED <<pc, req, st, resp, mints, claimsFile, providerCalls>>
    /\ UNCHANGED syncVars

\* Token contract: an address that holds nothing receives one minor unit
TransferIn(a) ==
    /\ balance[a] = 0
    /\ Outcome(FALSE)
    /\ balance' = [balance EXCEPT ![a] = 1]
    /\ UNCHANGED <<pc, req, st, resp, mints, claimsFile, providerCalls>>
    /\ UNCHANGED syncVars

----------------------------------------------------------------------------
(* Score provider client and eligibility (lib/ethos.ts) *)

\* Addresses the registry knows, in canonical form
SyncAddrs == {"0xaa", "0xbb", "0xcc"}

\* What the provider knows: the spec's scenario (A 1500, B 1000, C 1600) and
\* one on the threshold (A 1400, B 1399, C without a profile)
ScoreProfiles ==
    { [a \in SyncAddrs |-> CASE a = "0xaa" -> Score(1500)
                             [] a = "0xbb" -> Score(1000)
                             [] OTHER      -> Score(1600)],
      [a \in SyncAddrs |-> CASE a = "0xaa" -> Score(1400)
                             [] a = "0xbb" -> Score(1399)
                             [] OTHER      -> NoScore] }

\* Candidate lists handed to syncWhitelist: the spec's scenario, a list with a
\* mixed-case address, a list with a duplicate
CandidateLists ==
    { <<"0xaa", "0xbb", "0xcc">>, <<"0xAA", "0xbb">>, <<"0xcc", "0xcc">> }

\* The body of the provider's answer to POST /score/addresses: one entry per
\* requested address that has a profile, keyed as sent or in lower case
ProviderResponse(addresses, keyedAsSent) ==
    LET Key(a) == IF keyedAsSent THEN a ELSE ToLowerCase(a)
        asked  == {addresses[i] : i \in 1..Len(addresses)}
        known  == {a \in asked : provider[ToLowerCase(a)].found}
    IN  [k \in {Key(a) : a \in known} |-> provider[ToLowerCase(k)]]

\* ethos.ts getScoresByAddresses (whitelist.ts 320-364): every requested address
\* lower-cased as key, null when the response has no entry; {} when the request
\* fails or the answer is not 2xx
getScoresByAddresses(addresses, responseOk, data) ==
    IF addresses = <<>> \/ ~responseOk
    THEN <<>>
    ELSE LET asked == {addresses[i] : i \in 1..Len(addresses)}
             Entry(a) == IF ToLowerCase(a) \in DOMAIN data THEN data[ToLowerCase(a)]
                         ELSE IF a \in DOMAIN data THEN data[a]
                         ELSE NoScore
             Asked(k) == CHOOSE a \in asked : ToLowerCase(a) = k
         IN  [k \in {ToLowerCase(a) : a \in asked} |-> Entry(Asked(k))]

\* Variant: the threshold itself does not qualify
filterEligible_Strict(scores) ==
    {a \in DOMAIN scores : scores[a].found /\ scores[a].score > MIN_ETHOS_SCORE}

\* ethos.ts filterEligibleAddresses (whitelist.ts 373-390): the keys whose score
\* is at least MIN_ETHOS_SCORE
filterEligible(scores) ==
    {a \in DOMAIN scores : scores[a].found /\ scores[a].score >= MIN_ETHOS_SCORE}

\* ... and the score map of the keys that have a score
filterScores(scores) ==
    [a \in {k \in DOMAIN scores : scores[k].found} |-> scores[a].score]

----------------------------------------------------------------------------
(* Chain state the bulk tools act on, and a tool's local variables *)

\* The registry's policyIdCounter (the next id it will hand out), the accounts
\* of the policies created since, and the policy the token is bound to
InitChain ==
    [policyIdCounter |-> POLICY_ID + 1, members |-> {},
     transferPolicyId |-> POLICY_ID, foreign |-> {}, newToken |-> FALSE,
     issuer |-> FALSE, minted |-> FALSE]

\* No bulk tool has been started
NoBulk ==
    [tool |-> "", pc |-> "idle", policyId |-> 0, toAdd |-> <<>>, first |-> 0,
     nonce |-> 0, tasks |-> <<>>, sent |-> <<>>, hash |-> 0, newPolicyId |-> 0,
     added |-> 0, errors |-> 0]

----------------------------------------------------------------------------
(* Whitelist reconciliation: syncWhitelist (lib/whitelist.ts 48-135) *)

\* No error text in a result
NoError == [kind |-> "", score |-> NoScore]

\* No client function has been called directly yet
NoCall ==
    [fn |-> "", address |-> "", addresses |-> <<>>, http |-> "", readOk |-> TRUE,
     threw |-> FALSE, user |-> NoUser, score |-> NoScore, scores |-> <<>>,
     isAuthorized |-> FALSE, xp |-> 0, amount |-> 0, text |-> <<>>,
     parsed |-> 0, eligible |-> FALSE, eligibleSet |-> {}, claimed |-> FALSE,
     record |-> NoRecord, pc |-> "", hash |-> 0, success |-> FALSE,
     error |-> NoError, wasAuthorized |-> FALSE, count |-> 0, level |-> "",
     scoreHttp |-> "", status |-> NoStatus]

EmptyResult ==
    [checked |-> 0, added |-> <<>>, removed |-> <<>>, scores |-> <<>>,
     errors |-> <<>>]

\* The local variables of one syncWhitelist call.  `log` and `quiet` record what
\* the environment did (what each read returned, which transaction each
\* candidate got, whether a transaction was pending when the call began).
NoSync ==
    [pc |-> "idle", addresses |-> <<>>, idx |-> 0, eligible |-> {},
     fetchOk |-> FALSE, result |-> EmptyResult, hash |-> 0, allowed |-> FALSE,
     log |-> <<>>, quiet |-> FALSE]

SyncError(kind, address) == [kind |-> kind, address |-> address]

\* Variant: the add branch ignores the current state
NeedsAdd_Always(shouldBeAuthorized, isCurrentlyAuthorized) ==
    shouldBeAuthorized

\* whitelist.ts 95: eligible and not yet authorized
NeedsAdd(shouldBeAuthorized, isCurrentlyAuthorized) ==
    shouldBeAuthorized /\ ~isCurrentlyAuthorized

\* Variant: the remove branch ignores the current state
NeedsRemove_Always(shouldBeAuthorized, isCurrentlyAuthorized) ==
    ~shouldBeAuthorized

\* whitelist.ts 110: authorized and no longer eligible
NeedsRemove(shouldBeAuthorized, isCurrentlyAuthorized) ==
    ~shouldBeAuthorized /\ isCurrentlyAuthorized

\* The call returns (or the process dies): its summary joins `runs`
EndRun(s, complete) ==
    /\ runs' = Append(runs,
                 [addresses |-> s.addresses, fetchOk |-> s.fetchOk,
                  complete |-> complete, quiet |-> s.quiet,
                  result |-> s.result, log |-> s.log])
    /\ sync' = NoSync

\* whitelist.ts 84/128: the loop moves to the next candidate, or the call
\* returns its result (130)
NextCandidate(s) ==
    IF s.idx < Len(s.addresses)
    THEN /\ sync' = [s EXCEPT !.pc = "read", !.idx = @ + 1, !.hash = 0]
         /\ UNCHANGED runs
    ELSE EndRun(s, TRUE)

\* whitelist.ts 59-82: the candidate list, the bulk score fetch and the
\* eligibility filter, the policy id check
SyncStart ==
    /\ sync.pc = "idle"
    /\ Len(runs) < MaxSyncRuns
    /\ \E addresses \in CandidateLists, responseOk \in BOOLEAN,
          keyedAsSent \in BOOLEAN :
         LET scores == getScoresByAddresses(addresses, responseOk,
                           ProviderResponse(addresses, keyedAsSent))
             s0 == [NoSync EXCEPT
                      !.addresses = addresses,
                      !.fetchOk = responseOk,
                      !.eligible = filterEligible(scores),
                      !.result = [EmptyResult EXCEPT
                                    !.checked = Len(addresses),
                                    !.scores = filterScores(scores)],
                      !.quiet = \A h \in 1..Len(regTxs) :
                                   regTxs[h].status # "pending"]
         IN  /\ Outcome(responseOk)
             \* the keying of the body plays no part when the request failed
             /\ responseOk \/ keyedAsSent
             /\ IF Len(addresses) = 0
                THEN EndRun([s0 EXCEPT !.result.scores = <<>>, !.eligible = {}],
                            TRUE)
                ELSE IF policyId = 0
                THEN EndRun([s0 EXCEPT !.result.errors =
                               Append(@, SyncError("config", ""))], TRUE)
                ELSE /\ sync' = [s0 EXCEPT !.pc = "read", !.idx = 1]
                     /\ UNCHANGED runs
    /\ UNCHANGED <<authorized, regTxs, provider, whitelistedAddresses>>
    /\ UNCHANGED <<pc, req, st, resp, balance, mints, claimsFile, providerCalls>>
    /\ UNCHANGED <<policyId, wallet, call, chain, bulk>>

\* whitelist.ts 85-95, 110, 125-127: await readContract(isAuthorized); a failed
\* read throws into the outer catch (131-134), which ends the call
SyncRead ==
    /\ sync.pc = "read"
    /\ LET normalizedAddress == ToLowerCase(sync.addresses[sync.idx])
           shouldBeAuthorized == normalizedAddress \in sync.eligible
       IN  \E readOk \in BOOLEAN :
             /\ Outcome(readOk)
             /\ IF ~readOk
                THEN /\ EndRun([sync EXCEPT
                                  !.result.errors = Append(@, SyncError("sync", "")),
                                  !.log = Append(@, [address |-> normalizedAddress,
                                                     policy |-> policyId,
                                                     read |-> "failed", hash |-> 0,
                                                     wait |-> "none"])],
                               FALSE)
                     /\ UNCHANGED whitelistedAddresses
                ELSE LET isCurrentlyAuthorized == authorized[normalizedAddress]
                         logged == [sync EXCEPT !.log = Append(@,
                                      [address |-> normalizedAddress,
                                       policy |-> policyId,
                                       read |-> IF isCurrentlyAuthorized
                                                THEN "true" ELSE "false",
                                       hash |-> 0, wait |-> "none"])]
                     IN  IF NeedsAdd(shouldBeAuthorized, isCurrentlyAuthorized)
                         THEN /\ sync' = [logged EXCEPT !.pc = "submit",
                                                        !.allowed = TRUE]
                              /\ UNCHANGED <<runs, whitelistedAddresses>>
                         ELSE IF NeedsRemove(shouldBeAuthorized, isCurrentlyAuthorized)
                         THEN /\ sync' = [logged EXCEPT !.pc = "submit",
                                                        !.allowed = FALSE]
                              /\ UNCHANGED <<runs, whitelistedAddresses>>
                         ELSE /\ NextCandidate(logged)
                              /\ whitelistedAddresses' =
                                   IF shouldBeAuthorized
                                   THEN whitelistedAddresses \cup {normalizedAddress}
                                   ELSE whitelistedAddresses
    /\ UNCHANGED <<authorized, regTxs, provider>>
    /\ UNCHANGED <<pc, req, st, resp, balance, mints, claimsFile, providerCalls>>
    /\ UNCHANGED <<policyId, wallet, call, chain, bulk>>

\* The log entry of the candidate at hand, updated
Logged(s, hash, wait) ==
    [s EXCEPT !.log[Len(s.log)] = [@ EXCEPT !.hash = hash, !.wait = wait]]

\* Variant: the catch lists the candidate as if its receipt had come back
WriteFailed_Listed(s) ==
    IF s.allowed
    THEN [s EXCEPT !.result.added = Append(@, ToLowerCase(s.addresses[s.idx]))]
    ELSE [s EXCEPT !.result.removed = Append(@, ToLowerCase(s.addresses[s.idx]))]

\* whitelist.ts 108 and 123: the catch around one candidate's transaction
WriteFailed(s) ==
    [s EXCEPT !.result.errors =
        Append(@, SyncError(IF s.allowed THEN "add" ELSE "remove",
                            ToLowerCase(s.addresses[s.idx])))]

\* whitelist.ts 98-103 and 113-118: await writeContract(modifyPolicyWhitelist);
\* a throw is caught per candidate and the loop goes on
SyncSubmit ==
    /\ sync.pc = "submit"
    /\ \E submitted \in BOOLEAN :
         /\ Outcome(submitted)
         /\ IF submitted
            THEN /\ regTxs' = Append(regTxs,
                       [policyId |-> policyId,
                        address |-> ToLowerCase(sync.addresses[sync.idx]),
                        allowed |-> sync.allowed, status |-> "pending",
                        run |-> Len(runs) + 1])
                 /\ sync' = [Logged(sync, Len(regTxs) + 1, "none") EXCEPT
                               !.pc = "wait", !.hash = Len(regTxs) + 1]
                 /\ UNCHANGED runs
            ELSE /\ NextCandidate(WriteFailed(Logged(sync, 0, "unsent")))
                 /\ UNCHANGED regTxs
    /\ UNCHANGED <<authorized, provider, whitelistedAddresses>>
    /\ UNCHANGED <<pc, req, st, resp, balance, mints, claimsFile, providerCalls>>
    /\ UNCHANGED <<policyId, wallet, call, chain, bulk>>

\* whitelist.ts 105-106 and 120-121: the receipt came back; the address is
\* pushed to added or removed and the cache follows
Confirmed(s) ==
    IF s.allowed
    THEN [s EXCEPT !.result.added = Append(@, ToLowerCase(s.addresses[s.idx]))]
    ELSE [s EXCEPT !.result.removed = Append(@, ToLowerCase(s.addresses[s.idx]))]

\* whitelist.ts 104-109 and 119-124: await waitForTransactionReceipt; it returns
\* the receipt of a mined transaction, or throws (timeout, RPC error) into the
\* candidate's catch
SyncWait ==
    /\ sync.pc = "wait"
    /\ \/ /\ regTxs[sync.hash].status # "pending"
          /\ Outcome(TRUE)
          /\ NextCandidate(Confirmed(Logged(sync, sync.hash, "returned")))
          /\ whitelistedAddresses' =
               IF sync.allowed
               THEN whitelistedAddresses \cup {ToLowerCase(sync.addresses[sync.idx])}
               ELSE whitelistedAddresses \ {ToLowerCase(sync.addresses[sync.idx])}
       \/ /\ Outcome(FALSE)
          /\ NextCandidate(WriteFailed(Logged(sync, sync.hash, "threw")))
          /\ UNCHANGED whitelistedAddresses
    /\ UNCHANGED <<authorized, regTxs, provider>>
    /\ UNCHANGED <<pc, req, st, resp, balance, mints, claimsFile, providerCalls>>
    /\ UNCHANGED <<policyId, wallet, call, chain, bulk>>

\* Registry contract: a pending modifyPolicyWhitelist is included in a block,
\* and succeeds (setting the address's authorization) or reverts
MineReg(h) ==
    /\ h \in 1..Len(regTxs)
    /\ regTxs[h].status = "pending"
    /\ \E status \in {"success", "reverted"} :
         /\ Outcome(status = "success")
         /\ regTxs' = [regTxs EXCEPT ![h].status = status]
         /\ authorized' = IF status = "success"
                          THEN [authorized EXCEPT ![regTxs[h].address] =
                                                     regTxs[h].allowed]
                          ELSE authorized
    /\ UNCHANGED <<provider, sync, whitelistedAddresses, runs>>
    /\ UNCHANGED <<pc, req, st, resp, balance, mints, claimsFile, providerCalls>>
    /\ UNCHANGED <<policyId, wallet, call, chain, bulk>>

\* The process running syncWhitelist dies: the call never returns and the
\* in-memory cache is lost
SyncCrash ==
    /\ sync.pc # "idle"
    /\ Outcome(FALSE)
    /\ EndRun(sync, FALSE)
    /\ whitelistedAddresses' = {}
    /\ UNCHANGED <<authorized, regTxs, provider>>
    /\ UNCHANGED <<pc, req, st, resp, balance, mints, claimsFile, providerCalls>>
    /\ UNCHANGED <<policyId, wallet, call, chain, bulk>>

----------------------------------------------------------------------------
(* addToWhitelistIfEligible (lib/whitelist.ts 165-202) *)

\* Calls of addToWhitelistIfEligible in one behaviour
MaxAddCalls == 1

AddAddrs == {"0xaa", "0xAA", "0xbb", "0xcc"}

\* Variant: the policy after the configured one
ActivePolicy_Next ==
    policyId + 1

\* whitelist.ts 180: const policyId = CONTRACTS.POLICY_ID
ActivePolicy ==
    policyId

AddFrame ==
    /\ UNCHANGED <<pc, req, st, resp, balance, mints, claimsFile, providerCalls>>
    /\ UNCHANGED <<provider, sync, runs, policyId, wallet, chain, bulk>>

\* The call returns `result`
AddReturn(success, score, kind) ==
    call' = [call EXCEPT !.pc = "returned", !.success = success,
                         !.score = score,
                         !.error = [kind |-> kind, score |-> score]]

\* whitelist.ts 169-183: the score of the one address is fetched; an address
\* that is not eligible gets an error with its score ("unknown" without one),
\* a zero policy id "Policy not configured"
AddStart ==
    /\ sync.pc = "idle"
    /\ call.pc \notin {"submit", "wait"}
    /\ call.count < MaxAddCalls
    /\ \E address \in AddAddrs, responseOk \in BOOLEAN, keyedAsSent \in BOOLEAN :
         LET scores == getScoresByAddresses(<<address>>, responseOk,
                           ProviderResponse(<<address>>, keyedAsSent))
             lower == ToLowerCase(address)
             score == IF lower \in DOMAIN scores THEN scores[lower] ELSE NoScore
             c0 == [NoCall EXCEPT !.fn = "addToWhitelistIfEligible",
                                  !.address = address, !.readOk = responseOk,
                                  !.score = score, !.count = call.count + 1]
         IN  /\ Outcome(responseOk)
             /\ responseOk \/ keyedAsSent
             /\ call' = IF lower \notin filterEligible(scores)
                        THEN [c0 EXCEPT !.pc = "returned",
                                        !.error = [kind |-> "below", score |-> score]]
                        ELSE IF ActivePolicy = 0
                        THEN [c0 EXCEPT !.pc = "returned",
                                        !.error = [kind |-> "config", score |-> score]]
                        ELSE [c0 EXCEPT !.pc = "submit"]
    /\ UNCHANGED <<authorized, regTxs, whitelistedAddresses>>
    /\ AddFrame

\* whitelist.ts 188-193: await writeContract(modifyPolicyWhitelist(policyId,
\* address, true)); a throw goes to the catch (199-201).  No isAuthorized read
\* precedes it: wasAuthorized notes what the registry held at that moment.
AddSubmit ==
    /\ call.pc = "submit"
    /\ \E submitted \in BOOLEAN :
         /\ Outcome(submitted)
         /\ IF submitted
            THEN /\ regTxs' = Append(regTxs,
                       [policyId |-> ActivePolicy,
                        address |-> ToLowerCase(call.address),
                        allowed |-> TRUE, status |-> "pending", run |-> 0])
                 /\ call' = [call EXCEPT
                               !.pc = "wait", !.hash = Len(regTxs) + 1,
                               !.wasAuthorized =
                                  authorized[ToLowerCase(call.address)]]
            ELSE /\ AddReturn(FALSE, NoScore, "threw")
                 /\ UNCHANGED regTxs
    /\ UNCHANGED <<authorized, whitelistedAddresses>>
    /\ AddFrame

\* whitelist.ts 195-198: await waitForTransactionReceipt; a receipt of either
\* status gives success and puts the address in the cache, a throw (timeout,
\* RPC error) goes to the catch
AddWait ==
    /\ call.pc = "wait"
    /\ \/ /\ regTxs[call.hash].status # "pending"
          /\ Outcome(TRUE)
          /\ AddReturn(TRUE, call.score, "")
          /\ whitelistedAddresses' =
               whitelistedAddresses \cup {ToLowerCase(call.address)}
       \/ /\ Outcome(FALSE)
          /\ AddReturn(FALSE, NoScore, "threw")
          /\ UNCHANGED whitelistedAddresses
    /\ UNCHANGED <<authorized, regTxs>>
    /\ AddFrame

----------------------------------------------------------------------------
(* The client functions called on their own, as the API routes call them    *)
(* (routes/api/ethos-score.ts, search-users.ts, vouched-users.ts)           *)

\* whitelist.ts 138-140: isWhitelisted: the cache's answer
isWhitelisted(address) ==
    ToLowerCase(address) \in whitelistedAddresses

\* whitelist.ts 143-162: checkAuthorization: false for a zero policy id, the
\* value isAuthorized returns, and false from the catch when the read fails
checkAuthorization(address, readOk) ==
    IF policyId = 0 THEN FALSE
    ELSE IF readOk THEN authorized[ToLowerCase(address)]
    ELSE FALSE

\* What GET /score/address brings for an address the provider knows or not
ScoreResponsesFor(address) ==
    (IF provider[ToLowerCase(address)].found
     THEN {[http |-> "ok", score |-> provider[ToLowerCase(address)]]}
     ELSE {})
    \cup {[http |-> h, score |-> NoScore] : h \in HttpOutcomes \ {"ok"}}

CallGetUserData ==
    /\ \E address \in LowerAddrs, response \in UserResponses :
         /\ Outcome(~HttpFailed(response.http))
         /\ call' = [NoCall EXCEPT !.fn = "getUserData", !.address = address,
                                   !.http = response.http,
                                   !.user = getUserData(response)]
    /\ UNCHANGED <<pc, req, st, resp, balance, mints, claimsFile, providerCalls>>
    /\ UNCHANGED <<authorized, regTxs, provider, sync, whitelistedAddresses,
                   runs, policyId, wallet, chain, bulk>>

CallGetScoreByAddress ==
    /\ \E address \in SyncAddrs :
         \E response \in ScoreResponsesFor(address) :
            /\ Outcome(~HttpFailed(response.http))
            /\ call' = [NoCall EXCEPT !.fn = "getScoreByAddress",
                                      !.address = address,
                                      !.http = response.http,
                                      !.score = getScoreByAddress(response)]
    /\ UNCHANGED <<pc, req, st, resp, balance, mints, claimsFile, providerCalls>>
    /\ UNCHANGED <<authorized, regTxs, provider, sync, whitelistedAddresses,
                   runs, policyId, wallet, chain, bulk>>

CallGetScoresByAddresses ==
    /\ \E addresses \in CandidateLists, http \in {"ok", "serverError", "networkError"},
          keyedAsSent \in BOOLEAN :
         /\ Outcome(http = "ok")
         /\ http = "ok" \/ keyedAsSent
         /\ call' = [NoCall EXCEPT
                       !.fn = "getScoresByAddresses", !.addresses = addresses,
                       !.http = http,
                       !.scores = getScoresByAddresses(addresses, http = "ok",
                                     ProviderResponse(addresses, keyedAsSent))]
    /\ UNCHANGED <<pc, req, st, resp, balance, mints, claimsFile, providerCalls>>
    /\ UNCHANGED <<authorized, regTxs, provider, sync, whitelistedAddresses,
                   runs, policyId, wallet, chain, bulk>>

\* Variant: the threshold itself is not enough
isAddressEligible_Above(score) ==
    score.found /\ score.score > MIN_ETHOS_SCORE

\* whitelist.ts 367-370: isAddressEligible on the answer of getScoreByAddress:
\* score !== null && score.score >= MIN_ETHOS_SCORE
isAddressEligible(score) ==
    score.found /\ score.score >= MIN_ETHOS_SCORE

\* Scores around the threshold, and the 0 a body without a score is read as
ThresholdScores == {0} \cup ((MIN_ETHOS_SCORE - 2)..(MIN_ETHOS_SCORE + 2))

CallIsAddressEligible ==
    /\ \E address \in LowerAddrs :
         \E response \in {[http |-> "ok", score |-> Score(n)] : n \in ThresholdScores}
                         \cup {[http |-> h, score |-> NoScore] :
                                  h \in HttpOutcomes \ {"ok"}} :
            /\ Outcome(~HttpFailed(response.http))
            /\ call' = [NoCall EXCEPT
                          !.fn = "isAddressEligible", !.address = address,
                          !.http = response.http,
                          !.score = getScoreByAddress(response),
                          !.eligible =
                             isAddressEligible(getScoreByAddress(response))]
    /\ UNCHANGED <<pc, req, st, resp, balance, mints, claimsFile, providerCalls>>
    /\ UNCHANGED <<authorized, regTxs, provider, sync, whitelistedAddresses,
                   runs, policyId, wallet, chain, bulk>>

\* whitelist.ts 373-390: filterEligibleAddresses on a list: the eligible keys
CallFilterEligibleAddresses ==
    /\ \E addresses \in CandidateLists, keyedAsSent \in BOOLEAN :
         LET scores == getScoresByAddresses(addresses, TRUE,
                           ProviderResponse(addresses, keyedAsSent))
         IN  call' = [NoCall EXCEPT
                        !.fn = "filterEligibleAddresses", !.addresses = addresses,
                        !.http = "ok", !.scores = scores,
                        !.eligibleSet = filterEligible(scores)]
    /\ UNCHANGED <<pc, req, st, resp, balance, mints, claimsFile, providerCalls,
                   faults>>
    /\ UNCHANGED <<authorized, regTxs, provider, sync, whitelistedAddresses,
                   runs, policyId, wallet, chain, bulk>>

\* Variant: the upper end of each range belongs to the lower level
getScoreLevel_Closed(score) ==
    IF score <= 800 THEN "untrusted"
    ELSE IF score <= 1200 THEN "questionable"
    ELSE IF score <= 1600 THEN "neutral"
    ELSE IF score <= 2000 THEN "reputable"
    ELSE "exemplary"

\* whitelist.ts 398-404: getScoreLevel
getScoreLevel(score) ==
    IF score < 800 THEN "untrusted"
    ELSE IF score < 1200 THEN "questionable"
    ELSE IF score < 1600 THEN "neutral"
    ELSE IF score < 2000 THEN "reputable"
    ELSE "exemplary"

\* Integer scores at and around every boundary, below zero and far above
LevelScores ==
    {b + d : b \in {0, 800, 1200, 1600, 2000, 2800}, d \in (0 - 2)..2}

CallGetScoreLevel ==
    /\ \E score \in LevelScores :
         call' = [NoCall EXCEPT !.fn = "getScoreLevel", !.score = Score(score),
                                !.level = getScoreLevel(score)]
    /\ UNCHANGED <<pc, req, st, resp, balance, mints, claimsFile, providerCalls,
                   faults>>
    /\ UNCHANGED <<authorized, regTxs, provider, sync, whitelistedAddresses,
                   runs, policyId, wallet, chain, bulk>>

CallCheckAuthorization ==
    /\ \E address \in {"0xaa", "0xAA", "0xbb", "0xcc"}, readOk \in BOOLEAN :
         /\ Outcome(readOk)
         /\ policyId = 0 => readOk
         /\ call' = [NoCall EXCEPT
                       !.fn = "checkAuthorization", !.address = address,
                       !.readOk = readOk,
                       !.isAuthorized = checkAuthorization(address, readOk)]
    /\ UNCHANGED <<pc, req, st, resp, balance, mints, claimsFile, providerCalls>>
    /\ UNCHANGED <<authorized, regTxs, provider, sync, whitelistedAddresses,
                   runs, policyId, wallet, chain, bulk>>

----------------------------------------------------------------------------
(* Browser wallet: lib/wallet.ts.  The manual-disconnect flag lives in     *)
(* sessionStorage under DISCONNECT_KEY; disconnect listeners are held in a *)
(* JavaScript Set, which keeps insertion order and holds a value once.     *)
(* Listeners are opaque callbacks that return normally and do not call     *)
(* back into the module, as the ones the islands register.                 *)

MaxListeners == 2

\* The callbacks a page may register with onDisconnect
Callbacks == 1..MaxListeners

\* What the wallet provider answers to eth_accounts / eth_requestAccounts
WalletAccounts == {<<>>, <<"0xaa">>, <<"0xbb", "0xaa">>}

\* sessionStorage.getItem of a key that is not set; also a null account
NoItem == "null"

NoGet == [pc |-> "idle", result |-> NoItem, sticky |-> FALSE]

NoConnect == [pc |-> "idle", accounts |-> <<>>, result |-> NoItem, error |-> ""]

\* wallet.ts 118, 149: module state at load, in a browser with a wallet.
\*   window, ethereum: typeof window !== "undefined", window.ethereum set
\*   storage:   sessionStorage[DISCONNECT_KEY]
\*   listeners: disconnectListeners, in insertion order
\*   accounts:  the accounts the provider currently exposes to the page
\*   get, connect: the getConnectedAccount / connectWallet call in flight
\*   op, called, removed, sticky: history of the calls made so far (the last
\*     listener operation, how often the last disconnectWallet invoked each
\*     callback, the callbacks unsubscribed and not registered again, and
\*     whether disconnectWallet ran with no connectWallet invoked since)
NoWallet ==
    [window |-> TRUE, ethereum |-> TRUE, storage |-> NoItem,
     listeners |-> <<>>, accounts |-> <<>>, get |-> NoGet,
     connect |-> NoConnect, op |-> "",
     called |-> [c \in Callbacks |-> 0], removed |-> {}, sticky |-> FALSE]

\* wallet.ts 121-123
isWalletAvailable == wallet.window /\ wallet.ethereum

\* Variant: the flag is looked up under a key that is never written
isManuallyDisconnected_OtherKey ==
    IF ~wallet.window THEN FALSE ELSE NoItem = "true"

\* wallet.ts 126-129
isManuallyDisconnected ==
    IF ~wallet.window THEN FALSE ELSE wallet.storage = "true"

\* wallet.ts 132-139: the value of sessionStorage[DISCONNECT_KEY] afterwards
setManuallyDisconnected(value) ==
    IF ~wallet.window THEN wallet.storage
    ELSE IF value THEN "true" ELSE NoItem

\* Set.prototype.add, Set.prototype.delete and the number of times
\* Set.prototype.forEach visits a value
SetHas(set, c) == \E i \in 1..Len(set) : set[i] = c

SetAdd(set, c) == IF SetHas(set, c) THEN set ELSE Append(set, c)

SetDelete(set, c) == SelectSeq(set, LAMBDA x : x # c)

Visits(set, c) == Cardinality({i \in 1..Len(set) : set[i] = c})

WalletUnchanged ==
    /\ UNCHANGED <<pc, req, st, resp, balance, mints, claimsFile, providerCalls,
                   faults>>
    /\ UNCHANGED <<authorized, regTxs, provider, sync, whitelistedAddresses,
                   runs, policyId, call, chain, bulk>>

\* wallet.ts 151-152: onDisconnect(callback)
onDisconnect ==
    /\ \E callback \in Callbacks :
         wallet' = [wallet EXCEPT
                      !.listeners = SetAdd(@, callback),
                      !.removed = @ \ {callback},
                      !.op = "onDisconnect"]
    /\ WalletUnchanged

\* wallet.ts 153: the function onDisconnect returned, called by its holder
Unsubscribe ==
    /\ \E callback \in Callbacks :
         /\ SetHas(wallet.listeners, callback) \/ callback \in wallet.removed
         /\ wallet' = [wallet EXCEPT
                         !.listeners = SetDelete(@, callback),
                         !.removed = @ \cup {callback},
                         !.op = "unsubscribe"]
    /\ WalletUnchanged

\* wallet.ts 142-146: disconnectWallet()
disconnectWallet ==
    /\ wallet' = [wallet EXCEPT
                    !.storage = setManuallyDisconnected(TRUE),
                    !.called = [c \in Callbacks |-> Visits(wallet.listeners, c)],
                    !.op = "disconnectWallet",
                    !.sticky = TRUE]
    /\ WalletUnchanged

\* The user changes, in the wallet, the accounts the page may see
AccountsChanged ==
    /\ wallet.ethereum
    /\ \E accounts \in WalletAccounts \ {wallet.accounts} :
         wallet' = [wallet EXCEPT !.accounts = accounts]
    /\ WalletUnchanged

\* wallet.ts 157-165: connectWallet() up to its first await
ConnectStart ==
    /\ wallet.connect.pc \in {"idle", "done"}
    /\ wallet' =
         IF ~isWalletAvailable
         THEN [wallet EXCEPT
                 !.connect = [NoConnect EXCEPT
                                !.pc = "done",
                                !.error = "Please install MetaMask or another wallet extension"],
                 !.sticky = FALSE]
         ELSE [wallet EXCEPT
                 !.storage = setManuallyDisconnected(FALSE),
                 !.connect = [NoConnect EXCEPT !.pc = "request"],
                 !.sticky = FALSE]
    /\ WalletUnchanged

\* wallet.ts 165-171: eth_requestAccounts answers (the user approves some
\* accounts, which the provider exposes from then on) or rejects
ConnectAccounts ==
    /\ wallet.connect.pc = "request"
    /\ \E ok \in BOOLEAN, accounts \in WalletAccounts :
         wallet' =
           IF ~ok
           THEN [wallet EXCEPT !.connect.pc = "done",
                               !.connect.error = "User rejected the request"]
           ELSE IF Len(accounts) = 0
           THEN [wallet EXCEPT !.connect.pc = "done",
                               !.connect.error = "No accounts found"]
           ELSE [wallet EXCEPT !.accounts = accounts,
                               !.connect.accounts = accounts,
                               !.connect.pc = "switch"]
    /\ WalletUnchanged

\* wallet.ts 174-197: wallet_switchEthereumChain, then wallet_addEthereumChain
\* when the chain is unknown (4902); only a failure of the latter is thrown
ConnectSwitch ==
    /\ wallet.connect.pc = "switch"
    /\ \E switch \in {"ok", "4902", "other"}, addOk \in BOOLEAN :
         /\ switch # "4902" => addOk
         /\ wallet' =
              IF switch = "4902" /\ ~addOk
              THEN [wallet EXCEPT !.connect.pc = "done",
                                  !.connect.error = "wallet_addEthereumChain failed"]
              ELSE [wallet EXCEPT !.connect.pc = "done",
                                  !.connect.result = wallet.connect.accounts[1]]
    /\ WalletUnchanged

\* wallet.ts 201-212: getConnectedAccount() up to its await
GetStart ==
    /\ wallet.get.pc \in {"idle", "done"}
    /\ wallet' =
         IF ~isWalletAvailable \/ isManuallyDisconnected
         THEN [wallet EXCEPT !.get = [pc |-> "done", result |-> NoItem,
                                      sticky |-> wallet.sticky]]
         ELSE [wallet EXCEPT !.get = [pc |-> "request", result |-> NoItem,
                                      sticky |-> wallet.sticky]]
    /\ WalletUnchanged

\* wallet.ts 212-219: eth_accounts answers with the accounts exposed at that
\* moment, or throws
GetAccounts ==
    /\ wallet.get.pc = "request"
    /\ \E ok \in BOOLEAN :
         wallet' = [wallet EXCEPT
                      !.get.pc = "done",
                      !.get.result = IF ok /\ Len(wallet.accounts) > 0
                                     THEN wallet.accounts[1] ELSE NoItem]
    /\ WalletUnchanged

----------------------------------------------------------------------------
(* Bulk whitelist tools: scripts/add-to-whitelist.ts (one signer, explicit  *)
(* nonce), scripts/upload-whitelist-fast.ts and                             *)
(* scripts/create-whitelist-chunked.ts (batches of parallel writeContract)  *)

Tools == {"add-to-whitelist", "upload-whitelist-fast", "create-whitelist-chunked"}

\* The administrative signer's address
Admin == "0xad"

\* The addresses of the CSV file, lower-cased and without duplicates
CsvAddresses == <<"0xaa", "0xbb", "0xcc">>

\* BATCH_SIZE / PARALLEL_ADD_SIZE (20 and 30 in the scripts) and
\* BATCH_CREATE_SIZE (450), scaled to the CSV of the model
ParallelSize == 2
BATCH_CREATE_SIZE == 2

\* A transaction of the administrative signer as the node holds it
AdminTx(fn, policy, address, accounts, nonce) ==
    [fn |-> fn, policyId |-> policy, address |-> address, allowed |-> TRUE,
     accounts |-> accounts, nonce |-> nonce, status |-> "pending", run |-> 0]

\* eth_getTransactionCount for the signer: with every transaction in regTxs
\* sent by the signer, starting from a fresh account, the next unused nonce
TransactionCount == Len(regTxs)

\* The node takes a transaction whose nonce is the signer's next one and
\* rejects one whose nonce is already taken
NodeAccepts(nonce) == nonce = TransactionCount

\* One entry of the tool's record of the transactions it signed and sent
SentEntry(address, nonce, hash) ==
    [address |-> address, nonce |-> nonce, hash |-> hash]

\* The parallel tasks of the batch that starts at index `first` of `list`
BatchTasks(list, first) ==
    LET last == IF first + ParallelSize - 1 < Len(list)
                THEN first + ParallelSize - 1 ELSE Len(list)
    IN  [i \in 1..(last - first + 1) |->
            [address |-> list[first + i - 1], pc |-> "prepare", nonce |-> 0,
             hash |-> 0, ok |-> FALSE]]

BulkFrame ==
    /\ UNCHANGED <<pc, req, st, resp, balance, mints, claimsFile, providerCalls>>
    /\ UNCHANGED <<provider, sync, whitelistedAddresses, runs, policyId, wallet, call>>

\* main() of a tool up to its first transaction: the CSV is parsed, the current
\* authorizations are read (add-to-whitelist 73-104, upload-whitelist-fast
\* 76-107); create-whitelist-chunked puts the admin first and reads nothing
\* (part_002 44-61)
BulkStart ==
    /\ bulk.pc = "idle" /\ bulk.tool = ""
    /\ \E tool \in Tools, bad \in 0..Len(CsvAddresses) :
         LET unreadable == IF bad = 0 THEN {} ELSE {CsvAddresses[bad]}
             toAdd == SelectSeq(CsvAddresses,
                         LAMBDA a : a \in unreadable \/ ~authorized[a])
             b == [NoBulk EXCEPT !.tool = tool, !.policyId = policyId]
         IN  CASE tool = "add-to-whitelist" ->
                    \* a read that throws counts as "not authorized" (85-87)
                    /\ Outcome(bad = 0)
                    /\ bulk' = IF toAdd = <<>> THEN [b EXCEPT !.pc = "done"]
                               ELSE [b EXCEPT !.pc = "count", !.toAdd = toAdd]
              [] tool = "upload-whitelist-fast" ->
                    \* a read that throws ends main() (179-182)
                    /\ Outcome(bad = 0)
                    /\ bulk' = IF bad # 0 THEN [b EXCEPT !.pc = "failed"]
                               ELSE IF toAdd = <<>> THEN [b EXCEPT !.pc = "done"]
                               ELSE [b EXCEPT !.pc = "batch", !.toAdd = toAdd,
                                              !.first = 1,
                                              !.tasks = BatchTasks(toAdd, 1)]
              [] OTHER ->
                    /\ bad = 0
                    /\ Outcome(TRUE)
                    /\ bulk' = [b EXCEPT !.pc = "create", !.policyId = 0,
                                         !.toAdd = <<Admin>> \o CsvAddresses]
    /\ UNCHANGED <<authorized, regTxs, chain>>
    /\ BulkFrame

\* add-to-whitelist 110: let nonce = await getTransactionCount(admin)
BulkGetTransactionCount ==
    /\ bulk.pc = "count"
    /\ \E readOk \in BOOLEAN :
         /\ Outcome(readOk)
         /\ bulk' = IF readOk
                    THEN [bulk EXCEPT !.pc = "send", !.first = 1,
                                      !.nonce = TransactionCount]
                    ELSE [bulk EXCEPT !.pc = "failed"]
    /\ UNCHANGED <<authorized, regTxs, chain>>
    /\ BulkFrame

\* add-to-whitelist 117-140: one turn of the send loop: writeContract with the
\* local nonce, which is incremented when the call returns a hash
BulkSend ==
    /\ bulk.pc = "send"
    /\ \E submitted \in BOOLEAN :
         LET address == bulk.toAdd[bulk.first]
             taken == submitted /\ NodeAccepts(bulk.nonce)
             hash == IF taken THEN Len(regTxs) + 1 ELSE 0
             next == IF bulk.first < Len(bulk.toAdd) THEN "send" ELSE "confirm"
         IN  /\ Outcome(submitted)
             /\ regTxs' = IF taken
                          THEN Append(regTxs, AdminTx("modifyPolicyWhitelist",
                                   bulk.policyId, address, <<>>, bulk.nonce))
                          ELSE regTxs
             /\ bulk' = [bulk EXCEPT
                           !.pc = next,
                           !.first = @ + 1,
                           !.nonce = IF taken THEN @ + 1 ELSE @,
                           !.errors = IF taken THEN @ ELSE @ + 1,
                           !.sent = IF submitted
                                    THEN Append(@, SentEntry(address, bulk.nonce, hash))
                                    ELSE @]
    /\ UNCHANGED <<authorized, chain>>
    /\ BulkFrame

\* add-to-whitelist 149-164: the receipts are awaited (each wait gives up after
\* its timeout); confirmed counts the waits that returned
BulkConfirm ==
    /\ bulk.pc = "confirm"
    /\ LET pending == {h \in 1..Len(regTxs) : regTxs[h].status = "pending"}
       IN  /\ Outcome(pending = {})
           /\ bulk' = [bulk EXCEPT !.pc = "done",
                                   !.added = Len(regTxs) - Cardinality(pending)]
    /\ UNCHANGED <<authorized, regTxs, chain>>
    /\ BulkFrame

\* walletClient.writeContract without a nonce (upload-whitelist-fast 126-131,
\* part_002 108-113), first half: the client asks the node for the signer's
\* transaction count and takes it as the nonce
TaskPrepare(i) ==
    /\ bulk.pc = "batch"
    /\ i \in 1..Len(bulk.tasks)
    /\ bulk.tasks[i].pc = "prepare"
    /\ \E readOk \in BOOLEAN :
         /\ Outcome(readOk)
         /\ bulk' = IF readOk
                    THEN [bulk EXCEPT !.tasks[i].pc = "send",
                                      !.tasks[i].nonce = TransactionCount]
                    ELSE [bulk EXCEPT !.tasks[i].pc = "done"]
    /\ UNCHANGED <<authorized, regTxs, chain>>
    /\ BulkFrame

\* ... second half: the signed transaction goes to the node, which returns its
\* hash or rejects it; a throw is caught by the task (133-135, 116-118)
TaskSend(i) ==
    /\ bulk.pc = "batch"
    /\ i \in 1..Len(bulk.tasks)
    /\ bulk.tasks[i].pc = "send"
    /\ \E submitted \in BOOLEAN :
         LET task == bulk.tasks[i]
             taken == submitted /\ NodeAccepts(task.nonce)
             hash == IF taken THEN Len(regTxs) + 1 ELSE 0
         IN  /\ Outcome(submitted)
             /\ regTxs' = IF taken
                          THEN Append(regTxs, AdminTx("modifyPolicyWhitelist",
                                   bulk.policyId, task.address, <<>>, task.nonce))
                          ELSE regTxs
             /\ bulk' = [bulk EXCEPT
                           !.tasks[i].pc = IF taken THEN "wait" ELSE "done",
                           !.tasks[i].hash = hash,
                           !.sent = IF submitted
                                    THEN Append(@, SentEntry(task.address, task.nonce, hash))
                                    ELSE @]
    /\ UNCHANGED <<authorized, chain>>
    /\ BulkFrame

\* await waitForTransactionReceipt in a task (upload-whitelist-fast 141-150,
\* once every send of the batch has settled; part_002 114 right after the
\* task's own send): a receipt of either status counts as added, a throw does
\* not
TaskWait(i) ==
    /\ bulk.pc = "batch"
    /\ i \in 1..Len(bulk.tasks)
    /\ bulk.tasks[i].pc = "wait"
    /\ bulk.tool = "upload-whitelist-fast" =>
         \A j \in 1..Len(bulk.tasks) : bulk.tasks[j].pc \in {"wait", "done"}
    /\ \/ /\ regTxs[bulk.tasks[i].hash].status # "pending"
          /\ Outcome(TRUE)
          /\ bulk' = [bulk EXCEPT !.tasks[i].pc = "done", !.tasks[i].ok = TRUE]
       \/ /\ Outcome(FALSE)
          /\ bulk' = [bulk EXCEPT !.tasks[i].pc = "done"]
    /\ UNCHANGED <<authorized, regTxs, chain>>
    /\ BulkFrame

\* upload-whitelist-fast 152-165 and part_002 121-134: Promise.all has settled,
\* the counters are updated and the loop takes the next batch
BulkBatchEnd ==
    /\ bulk.pc = "batch"
    /\ \A i \in 1..Len(bulk.tasks) : bulk.tasks[i].pc = "done"
    /\ LET ok == {i \in 1..Len(bulk.tasks) : bulk.tasks[i].ok}
           first == bulk.first + ParallelSize
           counted == [bulk EXCEPT !.added = @ + Cardinality(ok),
                                   !.errors = @ + Len(bulk.tasks) - Cardinality(ok),
                                   !.tasks = <<>>]
       IN  bulk' = IF first <= Len(bulk.toAdd)
                   THEN [counted EXCEPT !.first = first,
                                        !.tasks = BatchTasks(bulk.toAdd, first)]
                   ELSE IF bulk.tool = "create-whitelist-chunked"
                   THEN [counted EXCEPT !.pc = "update"]
                   ELSE [counted EXCEPT !.pc = "done"]
    /\ UNCHANGED <<authorized, regTxs, chain, faults>>
    /\ BulkFrame

\* A writeContract of the tool outside a batch: nothing else uses the signer
\* at that moment, so the count read and the send are one step.  A throw ends
\* main() (part_002 157-160).
SendAlone(fn, policy, accounts, next) ==
    \E submitted \in BOOLEAN :
        /\ Outcome(submitted)
        /\ regTxs' = IF submitted
                     THEN Append(regTxs, AdminTx(fn, policy, "", accounts,
                                                 TransactionCount))
                     ELSE regTxs
        /\ bulk' = IF submitted
                   THEN [bulk EXCEPT
                           !.pc = next, !.hash = Len(regTxs) + 1,
                           !.sent = Append(@, SentEntry(fn, TransactionCount,
                                                        Len(regTxs) + 1))]
                   ELSE [bulk EXCEPT !.pc = "failed"]

\* part_002 60-79: createPolicyWithAccounts(admin, WHITELIST, firstBatch)
BulkCreatePolicy ==
    /\ bulk.pc = "create"
    /\ SendAlone("createPolicyWithAccounts", 0,
                 SubSeq(bulk.toAdd, 1, BATCH_CREATE_SIZE), "created")
    /\ UNCHANGED <<authorized, chain>>
    /\ BulkFrame

\* part_002 82-93: the receipt is awaited (its status is not looked at) and
\* policyIdCounter is read: the new policy is taken to be counter - 1
BulkPolicyCreated ==
    /\ bulk.pc = "created"
    /\ \/ /\ regTxs[bulk.hash].status # "pending"
          /\ Outcome(TRUE)
          /\ LET remaining == SubSeq(bulk.toAdd, BATCH_CREATE_SIZE + 1,
                                     Len(bulk.toAdd))
                 b == [bulk EXCEPT !.newPolicyId = chain.policyIdCounter - 1,
                                   !.policyId = chain.policyIdCounter - 1,
                                   !.toAdd = remaining]
             IN  bulk' = IF remaining = <<>> THEN [b EXCEPT !.pc = "update"]
                         ELSE [b EXCEPT !.pc = "batch", !.first = 1,
                                        !.tasks = BatchTasks(remaining, 1)]
       \/ /\ Outcome(FALSE)
          /\ bulk' = [bulk EXCEPT !.pc = "failed"]
    /\ UNCHANGED <<authorized, regTxs, chain>>
    /\ BulkFrame

\* part_002 140-145: changeTransferPolicyId(newPolicyId) on the token
BulkUpdateToken ==
    /\ bulk.pc = "update"
    /\ SendAlone("changeTransferPolicyId", bulk.newPolicyId, <<>>, "updating")
    /\ UNCHANGED <<authorized, chain>>
    /\ BulkFrame

\* part_002 146-154: the receipt is awaited and the tool ends
BulkTokenUpdated ==
    /\ bulk.pc = "updating"
    /\ \/ /\ regTxs[bulk.hash].status # "pending"
          /\ Outcome(TRUE)
          /\ bulk' = [bulk EXCEPT !.pc = "done"]
       \/ /\ Outcome(FALSE)
          /\ bulk' = [bulk EXCEPT !.pc = "failed"]
    /\ UNCHANGED <<authorized, regTxs, chain>>
    /\ BulkFrame

\* The deploy script (scripts/deploy-token.ts 67-165): six transactions one
\* after the other.  `sync` marks the tempo.ts *Sync actions, which wait for
\* the receipt themselves and throw when it is reverted; after the other
\* sends the script awaits waitForTransactionReceipt and does not look at the
\* status.
DeploySteps_BindFirst ==
    << [fn |-> "createPolicy", sync |-> FALSE],
       [fn |-> "modifyPolicyWhitelist", sync |-> FALSE],
       [fn |-> "createToken", sync |-> TRUE],
       [fn |-> "changeTransferPolicyId", sync |-> FALSE],
       [fn |-> "grantRole", sync |-> FALSE],
       [fn |-> "mint", sync |-> TRUE] >>

DeploySteps ==
    << [fn |-> "createPolicy", sync |-> FALSE],
       [fn |-> "modifyPolicyWhitelist", sync |-> FALSE],
       [fn |-> "createToken", sync |-> TRUE],
       [fn |-> "grantRole", sync |-> FALSE],
       [fn |-> "mint", sync |-> TRUE],
       [fn |-> "changeTransferPolicyId", sync |-> FALSE] >>

\* deploy-token.ts 46-65: main() begins
DeployStart ==
    /\ bulk.pc = "idle" /\ bulk.tool = ""
    /\ bulk' = [NoBulk EXCEPT !.tool = "deploy-token", !.pc = "dSend",
                              !.first = 1]
    /\ UNCHANGED <<authorized, regTxs, chain, faults>>
    /\ BulkFrame

\* A writeContract of a script that sends one transaction at a time, with the
\* arguments of the call; a throw ends main()
ScriptSend(fn, policy, address, accounts, next) ==
    \E submitted \in BOOLEAN :
        /\ Outcome(submitted)
        /\ regTxs' = IF submitted
                     THEN Append(regTxs, AdminTx(fn, policy, address, accounts,
                                                 TransactionCount))
                     ELSE regTxs
        /\ bulk' = IF submitted
                   THEN [bulk EXCEPT
                           !.pc = next, !.hash = Len(regTxs) + 1,
                           !.sent = Append(@, SentEntry(fn, TransactionCount,
                                                        Len(regTxs) + 1))]
                   ELSE [bulk EXCEPT !.pc = "failed"]

\* deploy-token.ts 70-75, 96-101, 113-117, 135-140, 145-149, 157-162: the
\* script's next transaction is sent; the admin is whitelisted under, and the
\* token bound to, the policy id the script derived
DeploySend ==
    /\ bulk.pc = "dSend"
    /\ LET fn == DeploySteps[bulk.first].fn
       IN  ScriptSend(fn,
                      IF fn \in {"modifyPolicyWhitelist", "changeTransferPolicyId"}
                      THEN bulk.newPolicyId ELSE 0,
                      IF fn = "modifyPolicyWhitelist" THEN Admin ELSE "",
                      <<>>, "dWait")
    /\ UNCHANGED <<authorized, chain>>
    /\ BulkFrame

\* deploy-token.ts 79-89, 103, 113-119, 141, 145-152, 164: the receipt of the
\* transaction is awaited; after the policy creation policyIdCounter is read and
\* the policy id taken to be counter - 1.  A wait that throws, and a reverted
\* receipt in a *Sync action, end main().
DeployWait ==
    /\ bulk.pc = "dWait"
    /\ \/ /\ regTxs[bulk.hash].status # "pending"
          /\ Outcome(TRUE)
          /\ LET step == DeploySteps[bulk.first]
                 b == IF step.fn = "createPolicy"
                      THEN [bulk EXCEPT !.newPolicyId = chain.policyIdCounter - 1]
                      ELSE bulk
             IN  bulk' = IF step.sync /\ regTxs[bulk.hash].status = "reverted"
                         THEN [bulk EXCEPT !.pc = "failed"]
                         ELSE IF bulk.first = Len(DeploySteps)
                         THEN [b EXCEPT !.pc = "done"]
                         ELSE [b EXCEPT !.pc = "dSend", !.first = @ + 1]
       \/ /\ Outcome(FALSE)
          /\ bulk' = [bulk EXCEPT !.pc = "failed"]
    /\ UNCHANGED <<authorized, regTxs, chain>>
    /\ BulkFrame

\* create-whitelist-batch.ts 38-66: main() begins; the admin is put first in
\* the list
BatchStart ==
    /\ bulk.pc = "idle" /\ bulk.tool = ""
    /\ bulk' = [NoBulk EXCEPT !.tool = "create-whitelist-batch",
                              !.pc = "bCreate",
                              !.toAdd = <<Admin>> \o CsvAddresses]
    /\ UNCHANGED <<authorized, regTxs, chain, faults>>
    /\ BulkFrame

\* create-whitelist-batch.ts 72-81: createPolicyWithAccounts(admin, WHITELIST,
\* addresses)
BatchCreatePolicy ==
    /\ bulk.pc = "bCreate"
    /\ ScriptSend("createPolicyWithAccounts", 0, "", bulk.toAdd, "bCreated")
    /\ UNCHANGED <<authorized, chain>>
    /\ BulkFrame

\* create-whitelist-batch.ts 86-98: the receipt is awaited and a status other
\* than success throws; policyIdCounter is read and the new policy taken to be
\* counter - 1
BatchPolicyCreated ==
    /\ bulk.pc = "bCreated"
    /\ \/ /\ regTxs[bulk.hash].status # "pending"
          /\ Outcome(TRUE)
          /\ bulk' = IF regTxs[bulk.hash].status # "success"
                     THEN [bulk EXCEPT !.pc = "failed"]
                     ELSE [bulk EXCEPT !.pc = "update",
                                       !.newPolicyId = chain.policyIdCounter - 1,
                                       !.policyId = chain.policyIdCounter - 1]
       \/ /\ Outcome(FALSE)
          /\ bulk' = [bulk EXCEPT !.pc = "failed"]
    /\ UNCHANGED <<authorized, regTxs, chain>>
    /\ BulkFrame

\* Policies another party may create on the registry while a script runs
MaxForeignPolicies == 1

\* Registry contract: somebody else's createPolicy is mined
OtherCreatesPolicy ==
    /\ Cardinality(chain.foreign) < MaxForeignPolicies
    /\ chain' = [chain EXCEPT !.policyIdCounter = @ + 1,
                              !.foreign = @ \cup {chain.policyIdCounter}]
    /\ UNCHANGED <<authorized, regTxs, bulk, faults>>
    /\ BulkFrame

\* Whether the registry holds `address` authorized under `policy`
IsMember(policy, address) ==
    IF policy = policyId /\ address \in SyncAddrs THEN authorized[address]
    ELSE <<policy, address>> \in chain.members

\* What the contracts require of a transaction: grantRole and
\* changeTransferPolicyId on the new token need the token, mint needs the
\* issuer role
Executable(tx) ==
    CASE tx.fn = "grantRole" -> chain.newToken
      [] tx.fn = "mint"      -> chain.issuer
      [] tx.fn = "changeTransferPolicyId" /\ bulk.tool = "deploy-token" ->
             chain.newToken
      [] OTHER               -> TRUE

\* Registry and token contracts: a pending transaction of the signer is
\* included in a block, and succeeds with its effect or reverts.  A policy
\* creation that succeeds is given the counter's value as its id (kept in the
\* transaction's policyId); a new token starts under the built-in policy 1.
MineAdminTx(h) ==
    /\ h \in 1..Len(regTxs)
    /\ regTxs[h].status = "pending"
    /\ \E status \in {"success", "reverted"} :
         LET tx == regTxs[h]
             done == status = "success"
             creates == tx.fn \in {"createPolicy", "createPolicyWithAccounts"}
         IN  /\ done => Executable(tx)
             /\ Outcome(done \/ ~Executable(tx))
             /\ regTxs' = [regTxs EXCEPT
                             ![h].status = status,
                             ![h].policyId = IF done /\ creates
                                             THEN chain.policyIdCounter ELSE @]
             /\ authorized' =
                  IF done /\ tx.fn = "modifyPolicyWhitelist"
                     /\ tx.policyId = policyId /\ tx.address \in SyncAddrs
                  THEN [authorized EXCEPT ![tx.address] = tx.allowed]
                  ELSE authorized
             /\ chain' =
                  IF ~done THEN chain
                  ELSE CASE creates ->
                              [chain EXCEPT
                                 !.policyIdCounter = @ + 1,
                                 !.members = @ \cup
                                    {<<chain.policyIdCounter, tx.accounts[i]>> :
                                        i \in 1..Len(tx.accounts)}]
                         [] tx.fn = "changeTransferPolicyId" ->
                              [chain EXCEPT !.transferPolicyId = tx.policyId]
                         [] tx.fn = "modifyPolicyWhitelist"
                            /\ ~(tx.policyId = policyId /\ tx.address \in SyncAddrs) ->
                              [chain EXCEPT !.members = @ \cup
                                               {<<tx.policyId, tx.address>>}]
                         [] tx.fn = "createToken" ->
                              [chain EXCEPT !.newToken = TRUE,
                                            !.transferPolicyId = 1]
                         [] tx.fn = "grantRole" ->
                              [chain EXCEPT !.issuer = TRUE]
                         [] tx.fn = "mint" ->
                              [chain EXCEPT !.minted = TRUE]
                         [] OTHER -> chain
    /\ UNCHANGED bulk
    /\ BulkFrame

----------------------------------------------------------------------------
(* The ledger functions called on their own (lib/claims.ts 61-130), the     *)
(* write of the file in the two moments the file system gives it            *)

\* Addresses as a caller may spell them
LedgerAddrs == {"0xaa", "0xAA", "0xbb"}

\* recordClaim(address, amount, xp, txHash) is called: caller r's arguments
CallRecordClaim(r) ==
    /\ pc[r] = "idle"
    /\ \E address \in LedgerAddrs :
         /\ req' = [req EXCEPT ![r] =
                      Body(address, NoSignature, "number", 1000 + r, 0)]
         /\ st' = [st EXCEPT ![r] =
                      [InitLocals EXCEPT !.claimStatus = ClaimableStatus(2507),
                                         !.mintHash = r]]
    /\ pc' = [pc EXCEPT ![r] = "recLoad"]
    /\ resp' = [resp EXCEPT ![r] = NoResponse]
    /\ UNCHANGED <<balance, mints, claimsFile, providerCalls, faults>>
    /\ UNCHANGED syncVars

\* claims.ts 119-127 and 83-95: the record is set in the loaded Map and
\* Deno.writeTextFile opens the file, which truncates it
WriteTextFileBegin(r) ==
    /\ pc[r] = "recSave"
    /\ \E now \in Clock(req[r].timestamp) :
         st' = [st EXCEPT ![r].claims =
                   recordClaim(st[r].claims, req[r].address,
                               st[r].claimStatus.amount, st[r].claimStatus.xp,
                               st[r].mintHash, now)]
    /\ claimsFile' = <<Partial>>
    /\ pc' = [pc EXCEPT ![r] = "writing"]
    /\ UNCHANGED <<req, resp, balance, mints, providerCalls, faults>>
    /\ UNCHANGED syncVars

\* claims.ts 95: the new text is written out and recordClaim returns, or the
\* write fails (or the process dies) with the file left as it is
WriteTextFileEnd(r) ==
    /\ pc[r] = "writing"
    /\ \E writeOk \in BOOLEAN :
         /\ Outcome(writeOk)
         /\ claimsFile' = IF writeOk THEN saveClaims(st[r].claims) ELSE claimsFile
         /\ resp' = [resp EXCEPT ![r] = [NoResponse EXCEPT !.success = writeOk]]
    /\ pc' = [pc EXCEPT ![r] = "returned"]
    /\ st' = [st EXCEPT ![r] = InitLocals]
    /\ UNCHANGED <<req, balance, mints, providerCalls>>
    /\ UNCHANGED syncVars

\* claims.ts 99-108: hasClaimed(address) and getClaimRecord(address) at some
\* moment
CallGetClaimRecord ==
    /\ \E address \in LedgerAddrs, readOk \in BOOLEAN :
         /\ Outcome(readOk)
         /\ call' = [NoCall EXCEPT
                       !.fn = "getClaimRecord", !.address = address,
                       !.readOk = readOk,
                       !.claimed = hasClaimed(claimsFile, readOk, address),
                       !.record = getClaimRecord(claimsFile, readOk, address)]
    /\ UNCHANGED <<pc, req, st, resp, balance, mints, claimsFile, providerCalls>>
    /\ UNCHANGED <<authorized, regTxs, provider, sync, whitelistedAddresses,
                   runs, policyId, wallet, chain, bulk>>

----------------------------------------------------------------------------
(* Token amounts: the claimable amount of an XP total, and amounts as text  *)
(* (lib/claims.ts 174-183, lib/tempo.ts 60-79, lib/wallet.ts 79-98)         *)

\* XP totals the provider may report, in tenths: the smallest ones and those
\* around 250.7
MaxXpTenths == 2510

XpTotals == {xp \in 1..MaxXpTenths : xp <= 40 \/ xp >= 2490}

\* claims.ts 174-183 on its own: the amount getClaimableAmount answers for an
\* unclaimed address whose XP total is above zero
CallGetClaimableAmount ==
    /\ \E xp \in XpTotals :
         call' = [NoCall EXCEPT !.fn = "getClaimableAmount", !.xp = xp,
                                !.amount = ClaimableStatus(xp).amount,
                                !.status = ClaimableStatus(xp)]
    /\ UNCHANGED <<pc, req, st, resp, balance, mints, claimsFile, providerCalls,
                   faults>>
    /\ UNCHANGED <<authorized, regTxs, provider, sync, whitelistedAddresses,
                   runs, policyId, wallet, chain, bulk>>

\* claims.ts 171-211 on its own, for an address with zero balance and no
\* record whose user data brings no XP above zero: the score lookup decides
\* between the two messages
CallGetClaimableAmountNoXp ==
    /\ \E userResponse \in UserResponses, scoreResponse \in ScoreResponses :
         LET userData  == getUserData(userResponse)
             scoreData == getScoreByAddress(scoreResponse)
         IN  /\ ~(userData.found /\ userData.xp > 0)
             /\ Outcome(~HttpFailed(userResponse.http)
                        /\ ~HttpFailed(scoreResponse.http))
             /\ call' = [NoCall EXCEPT
                           !.fn = "getClaimableAmount",
                           !.http = userResponse.http,
                           !.scoreHttp = scoreResponse.http,
                           !.user = userData, !.score = scoreData,
                           !.status = NotEligibleStatus(userData, scoreData.found)]
    /\ UNCHANGED <<pc, req, st, resp, balance, mints, claimsFile, providerCalls>>
    /\ UNCHANGED <<authorized, regTxs, provider, sync, whitelistedAddresses,
                   runs, policyId, wallet, chain, bulk>>

\* Strings are sequences of characters
DigitChars == <<"0", "1", "2", "3", "4", "5", "6", "7", "8", "9">>

IsDigit(c) == \E d \in 1..10 : DigitChars[d] = c

DigitValue(c) == (CHOOSE d \in 1..10 : DigitChars[d] = c) - 1

\* BigInt.prototype.toString(): the decimal digits
RECURSIVE BigIntToString(_)
BigIntToString(n) ==
    IF n < 10 THEN <<DigitChars[n + 1]>>
    ELSE Append(BigIntToString(n \div 10), DigitChars[(n % 10) + 1])

\* String.prototype.padStart / padEnd with a one-character filler
RECURSIVE PadStart(_, _, _)
PadStart(str, targetLength, fill) ==
    IF Len(str) >= targetLength THEN str
    ELSE PadStart(<<fill>> \o str, targetLength, fill)

RECURSIVE PadEnd(_, _, _)
PadEnd(str, targetLength, fill) ==
    IF Len(str) >= targetLength THEN str
    ELSE PadEnd(Append(str, fill), targetLength, fill)

\* BigInt.prototype.toLocaleString() in the runtime's default locale (en-US):
\* groups of three digits separated by commas
RECURSIVE toLocaleString(_)
toLocaleString(n) ==
    IF n < 1000 THEN BigIntToString(n)
    ELSE toLocaleString(n \div 1000) \o <<",">>
         \o PadStart(BigIntToString(n % 1000), 3, "0")

\* str.replace(/0+$/, "")
RECURSIVE StripTrailingZeros(_)
StripTrailingZeros(str) ==
    IF str # <<>> /\ str[Len(str)] = "0"
    THEN StripTrailingZeros(SubSeq(str, 1, Len(str) - 1))
    ELSE str

\* str.replace(/,/g, "")
StripCommas(str) == SelectSeq(str, LAMBDA c : c # ",")

\* str.split("."): the pieces between the dots
RECURSIVE Split(_)
Split(str) ==
    IF \A i \in 1..Len(str) : str[i] # "."
    THEN <<str>>
    ELSE LET i == CHOOSE j \in 1..Len(str) :
                      str[j] = "." /\ \A k \in 1..(j - 1) : str[k] # "."
         IN  <<SubSeq(str, 1, i - 1)>> \o Split(SubSeq(str, i + 1, Len(str)))

\* str.slice(0, end)
Slice(str, end) == SubSeq(str, 1, IF Len(str) < end THEN Len(str) ELSE end)

RECURSIVE DigitsValue(_)
DigitsValue(str) ==
    IF str = <<>> THEN 0
    ELSE 10 * DigitsValue(SubSeq(str, 1, Len(str) - 1)) + DigitValue(str[Len(str)])

\* BigInt(str): the value of a string of decimal digits; a SyntaxError for a
\* string with any other character in it
BigInt(str) ==
    IF \A i \in 1..Len(str) : IsDigit(str[i])
    THEN [threw |-> FALSE, value |-> DigitsValue(str)]
    ELSE [threw |-> TRUE, value |-> 0]

\* 10 ** decimals for the token's six decimals
Divisor == 1000000

\* tempo.ts 61-72: the whole tokens in the default locale, then the fraction
\* without its trailing zeros
formatTokenAmount(amount) ==
    LET integerPart == amount \div Divisor
        fractionalPart == amount % Divisor
        fractionalStr ==
            StripTrailingZeros(PadStart(BigIntToString(fractionalPart), 6, "0"))
    IN  IF fractionalPart = 0 THEN toLocaleString(integerPart)
        ELSE toLocaleString(integerPart) \o <<".">> \o fractionalStr

\* tempo.ts 75-79: integer part and padded fraction glued and handed to BigInt
parseTokenAmount(amount) ==
    LET parts == Split(amount)
        integerPart == parts[1]
        fractionalPart == IF Len(parts) > 1 THEN parts[2] ELSE <<>>
        paddedFractional == Slice(PadEnd(fractionalPart, 6, "0"), 6)
    IN  BigInt(integerPart \o paddedFractional)

\* wallet.ts 80-91: the same formatting in the browser
formatAmount(amount) ==
    LET integerPart == amount \div Divisor
        fractionalPart == amount % Divisor
        fractionalStr ==
            StripTrailingZeros(PadStart(BigIntToString(fractionalPart), 6, "0"))
    IN  IF fractionalPart = 0 THEN toLocaleString(integerPart)
        ELSE toLocaleString(integerPart) \o <<".">> \o fractionalStr

\* wallet.ts 94-98: as parseTokenAmount, with the commas taken out of the
\* integer part first
parseAmount(amount) ==
    LET parts == Split(amount)
        integerPart == parts[1]
        fractionalPart == IF Len(parts) > 1 THEN parts[2] ELSE <<>>
        paddedFractional == Slice(PadEnd(fractionalPart, 6, "0"), 6)
    IN  BigInt(StripCommas(integerPart) \o paddedFractional)

\* Amounts in minor units: whole-token parts below, at and above one thousand,
\* with and without a fraction
MaxTokens == 2000

TokenAmounts ==
    {tokens * Divisor + fraction :
        tokens \in {0, 1, 250, 999, 1000, 1234, MaxTokens},
        fraction \in {0, 1, 120000, 500000, 999999}}

\* An amount formatted by lib/tempo.ts and parsed back
CallTokenAmountRoundTrip ==
    /\ \E n \in TokenAmounts :
         LET text == formatTokenAmount(n)
             back == parseTokenAmount(text)
         IN  call' = [NoCall EXCEPT !.fn = "parseTokenAmount", !.amount = n,
                                    !.text = text, !.threw = back.threw,
                                    !.parsed = back.value]
    /\ UNCHANGED <<pc, req, st, resp, balance, mints, claimsFile, providerCalls,
                   faults>>
    /\ UNCHANGED <<authorized, regTxs, provider, sync, whitelistedAddresses,
                   runs, policyId, wallet, chain, bulk>>

\* An amount formatted by lib/wallet.ts and parsed back
CallAmountRoundTrip ==
    /\ \E n \in TokenAmounts :
         LET text == formatAmount(n)
             back == parseAmount(text)
         IN  call' = [NoCall EXCEPT !.fn = "parseAmount", !.amount = n,
                                    !.text = text, !.threw = back.threw,
                                    !.parsed = back.value]
    /\ UNCHANGED <<pc, req, st, resp, balance, mints, claimsFile, providerCalls,
                   faults>>
    /\ UNCHANGED <<authorized, regTxs, provider, sync, whitelistedAddresses,
                   runs, policyId, wallet, chain, bulk>>

----------------------------------------------------------------------------
(* The claim ledger's specification *)

InitClaimSide ==
    /\ pc = [r \in Requests |-> "idle"]
    /\ req = [r \in Requests |-> NoRequest]
    /\ st = [r \in Requests |-> InitLocals]
    /\ resp = [r \in Requests |-> NoResponse]
    /\ balance = [a \in LowerAddrs |-> 0]
    /\ mints = <<>>
    /\ claimsFile = <<>>
    /\ providerCalls = {}
    /\ faults = 0

InitClaim ==
    /\ InitClaimSide
    /\ authorized = [a \in SyncAddrs |-> FALSE]
    /\ regTxs = <<>>
    /\ provider = [a \in SyncAddrs |-> NoScore]
    /\ sync = NoSync
    /\ whitelistedAddresses = {}
    /\ runs = <<>>
    /\ policyId = POLICY_ID
    /\ wallet = NoWallet
    /\ call = NoCall
    /\ chain = InitChain
    /\ bulk = NoBulk

NextClaim ==
    \/ \E r \in Requests : Post(r)
    \/ \E r \in Requests : BalanceRead(r)
    \/ \E r \in Requests : GetClaimRecord(r)
    \/ \E r \in Requests : ProviderLookup(r)
    \/ \E r \in Requests : Mint(r)
    \/ \E r \in Requests : WaitReceipt(r)
    \/ \E r \in Requests : RecordLoad(r)
    \/ \E r \in Requests : RecordSave(r)
    \/ \E h \in 1..Len(mints) : MineMint(h)
    \/ \E a \in LowerAddrs : TransferOut(a)
    \/ \E a \in LowerAddrs : TransferIn(a)

SpecClaim == InitClaim /\ [][NextClaim]_vars

\* The same endpoint when callers never overlap: a request arrives only once
\* every earlier one has been answered
PostAlone(r) ==
    /\ \A q \in Requests : pc[q] \in {"idle", "done"}
    /\ Post(r)

NextClaimSeq ==
    \/ \E r \in Requests : PostAlone(r)
    \/ \E r \in Requests : BalanceRead(r)
    \/ \E r \in Requests : GetClaimRecord(r)
    \/ \E r \in Requests : ProviderLookup(r)
    \/ \E r \in Requests : Mint(r)
    \/ \E r \in Requests : WaitReceipt(r)
    \/ \E r \in Requests : RecordLoad(r)
    \/ \E r \in Requests : RecordSave(r)
    \/ \E h \in 1..Len(mints) : MineMint(h)
    \/ \E a \in LowerAddrs : TransferOut(a)
    \/ \E a \in LowerAddrs : TransferIn(a)

\* ... under either configuration of the policy id
InitClaimAnyPolicy ==
    /\ InitClaimSide
    /\ authorized = [a \in SyncAddrs |-> FALSE]
    /\ regTxs = <<>>
    /\ provider = [a \in SyncAddrs |-> NoScore]
    /\ sync = NoSync
    /\ whitelistedAddresses = {}
    /\ runs = <<>>
    /\ policyId \in PolicyIds
    /\ wallet = NoWallet
    /\ call = NoCall
    /\ chain = InitChain
    /\ bulk = NoBulk

SpecClaimSeq == InitClaimAnyPolicy /\ [][NextClaimSeq]_vars

----------------------------------------------------------------------------
(* The signature verification gate's specification: any body, up to the     *)
(* point where handler.POST either answers or turns to the ledger           *)

\* Bodies with a missing or ill-formed address, a missing, unparsable or
\* foreign signature, and a timestamp at the edge of the window, one past it,
\* in the future, zero, or not a number
GateBodies ==
    LET T == 1001
        stamps == { <<"number", T, T + MAX_SIGNATURE_AGE_MS>>,
                    <<"number", T, T + MAX_SIGNATURE_AGE_MS + 1>>,
                    <<"number", T, T - 1>>,
                    <<"number", 0, T>>,
                    <<"string", T, T>> }
    IN  {Body(rawAddress, signature, stamp[1], stamp[2], stamp[3]) :
            rawAddress \in {"0xAA", "", "0xzz"},
            signature \in {Signed("0xaa", getClaimMessage("0xAA", T)),
                           Signed("0xbb", getClaimMessage("0xAA", T)),
                           NoSignature, BadSignature},
            stamp \in stamps}

\* A request reaches the server
Arrive(r) ==
    /\ pc[r] = "idle"
    /\ \E body \in GateBodies :
         req' = [req EXCEPT ![r] = body]
    /\ pc' = [pc EXCEPT ![r] = "arrived"]
    /\ UNCHANGED <<st, resp, balance, mints, claimsFile, providerCalls, faults>>
    /\ UNCHANGED syncVars

\* handler.POST on the request that arrived
PostArrived(r) ==
    /\ pc[r] = "arrived"
    /\ HandlePost(r, req[r])

NextGate ==
    \/ \E r \in Requests : Arrive(r)
    \/ \E r \in Requests : PostArrived(r)

SpecGate == InitClaim /\ [][NextGate]_vars

----------------------------------------------------------------------------
(* The reconciliation engine's specification *)

InitSync ==
    /\ InitClaimSide
    /\ \E set \in SUBSET SyncAddrs :
         authorized = [a \in SyncAddrs |-> a \in set]
    /\ regTxs = <<>>
    /\ provider \in ScoreProfiles
    /\ sync = NoSync
    /\ whitelistedAddresses = {}
    /\ runs = <<>>
    /\ policyId \in PolicyIds
    /\ wallet = NoWallet
    /\ call = NoCall
    /\ chain = InitChain
    /\ bulk = NoBulk

NextSync ==
    \/ SyncStart
    \/ SyncRead
    \/ SyncSubmit
    \/ SyncWait
    \/ SyncCrash
    \/ \E h \in 1..Len(regTxs) : MineReg(h)

SpecSync == InitSync /\ [][NextSync]_vars

----------------------------------------------------------------------------
(* The client functions' specification *)

NextClient ==
    \/ CallGetScoreLevel
    \/ CallGetUserData
    \/ CallGetScoreByAddress
    \/ CallGetScoresByAddresses
    \/ CallCheckAuthorization
    \/ CallIsAddressEligible
    \/ CallFilterEligibleAddresses

SpecClient == InitSync /\ [][NextClient]_vars

----------------------------------------------------------------------------
(* The bulk whitelist tools' specification: one tool is run against a       *)
(* registry in which nobody or only 0xcc is authorized                      *)

InitBulk ==
    /\ InitClaimSide
    /\ \E set \in {{}, {"0xcc"}} :
         authorized = [a \in SyncAddrs |-> a \in set]
    /\ regTxs = <<>>
    /\ provider = [a \in SyncAddrs |-> NoScore]
    /\ sync = NoSync
    /\ whitelistedAddresses = {}
    /\ runs = <<>>
    /\ policyId = POLICY_ID
    /\ wallet = NoWallet
    /\ call = NoCall
    \* the admin is authorized under the policy the token is bound to
    /\ chain = [InitChain EXCEPT !.members = {<<POLICY_ID, Admin>>}]
    /\ bulk = NoBulk

NextBulk ==
    \/ BulkStart
    \/ BulkGetTransactionCount
    \/ BulkSend
    \/ BulkConfirm
    \/ \E i \in 1..ParallelSize : TaskPrepare(i)
    \/ \E i \in 1..ParallelSize : TaskSend(i)
    \/ \E i \in 1..ParallelSize : TaskWait(i)
    \/ BulkBatchEnd
    \/ BulkCreatePolicy
    \/ BulkPolicyCreated
    \/ BulkUpdateToken
    \/ BulkTokenUpdated
    \/ \E h \in 1..Len(regTxs) : MineAdminTx(h)

SpecBulk == InitBulk /\ [][NextBulk]_vars

\* ... together with the scripts that create a policy and bind the token to
\* it (deploy-token, create-whitelist-batch, create-whitelist-chunked), on a
\* registry other parties use as well
NextRebind ==
    \/ NextBulk
    \/ DeployStart
    \/ DeploySend
    \/ DeployWait
    \/ BatchStart
    \/ BatchCreatePolicy
    \/ BatchPolicyCreated
    \/ OtherCreatesPolicy

SpecRebind == InitBulk /\ [][NextRebind]_vars

----------------------------------------------------------------------------
(* The server's operations that wait for a receipt: POST /api/claim,         *)
(* syncWhitelist and addToWhitelistIfEligible.  A behaviour follows one of   *)
(* the three from a registry in which 0xbb and 0xcc are authorized.          *)

InitServer ==
    /\ InitClaimSide
    /\ authorized = [a \in SyncAddrs |-> a \in {"0xbb", "0xcc"}]
    /\ regTxs = <<>>
    /\ provider \in ScoreProfiles
    /\ sync = NoSync
    /\ whitelistedAddresses = {}
    /\ runs = <<>>
    /\ policyId = POLICY_ID
    /\ wallet = NoWallet
    /\ call = NoCall
    /\ chain = InitChain
    /\ bulk = NoBulk

ClaimIdle == \A q \in Requests : pc[q] = "idle"

SyncIdle == sync.pc = "idle" /\ runs = <<>>

AddIdle == call.count = 0

NextServer ==
    \/ \E r \in Requests : SyncIdle /\ AddIdle /\ PostAlone(r)
    \/ \E r \in Requests : BalanceRead(r)
    \/ \E r \in Requests : GetClaimRecord(r)
    \/ \E r \in Requests : ProviderLookup(r)
    \/ \E r \in Requests : Mint(r)
    \/ \E r \in Requests : WaitReceipt(r)
    \/ \E r \in Requests : RecordLoad(r)
    \/ \E r \in Requests : RecordSave(r)
    \/ \E h \in 1..Len(mints) : MineMint(h)
    \/ ClaimIdle /\ AddIdle /\ SyncStart
    \/ SyncRead
    \/ SyncSubmit
    \/ SyncWait
    \/ ClaimIdle /\ SyncIdle /\ AddStart
    \/ AddSubmit
    \/ AddWait
    \/ \E h \in 1..Len(regTxs) : MineReg(h)

SpecServer == InitServer /\ [][NextServer]_vars

----------------------------------------------------------------------------
(* The ledger functions' specification *)

NextLedger ==
    \/ \E r \in Requests : CallRecordClaim(r)
    \/ \E r \in Requests : RecordLoad(r)
    \/ \E r \in Requests : WriteTextFileBegin(r)
    \/ \E r \in Requests : WriteTextFileEnd(r)
    \/ CallGetClaimRecord

SpecLedger == InitClaim /\ [][NextLedger]_vars

----------------------------------------------------------------------------
(* The token amount functions' specification *)

NextAmount ==
    \/ CallGetClaimableAmount
    \/ CallGetClaimableAmountNoXp
    \/ CallTokenAmountRoundTrip
    \/ CallAmountRoundTrip

SpecAmount == InitClaim /\ [][NextAmount]_vars

----------------------------------------------------------------------------
(* The browser wallet's specification: any page environment (no window, a   *)
(* window without a wallet, a window with one), any order of calls          *)

InitWallet ==
    /\ InitClaimSide
    /\ authorized = [a \in SyncAddrs |-> FALSE]
    /\ regTxs = <<>>
    /\ provider = [a \in SyncAddrs |-> NoScore]
    /\ sync = NoSync
    /\ whitelistedAddresses = {}
    /\ runs = <<>>
    /\ policyId = POLICY_ID
    /\ call = NoCall
    /\ chain = InitChain
    /\ bulk = NoBulk
    /\ \E window \in BOOLEAN, ethereum \in BOOLEAN, accounts \in WalletAccounts :
         /\ ethereum => window
         /\ ~ethereum => accounts = <<>>
         /\ wallet = [NoWallet EXCEPT !.window = window, !.ethereum = ethereum,
                                      !.accounts = accounts]

NextWallet ==
    \/ onDisconnect
    \/ Unsubscribe
    \/ disconnectWallet
    \/ AccountsChanged
    \/ ConnectStart
    \/ ConnectAccounts
    \/ ConnectSwitch
    \/ GetStart
    \/ GetAccounts

SpecWallet == InitWallet /\ [][NextWallet]_vars

----------------------------------------------------------------------------
(* Properties of the claim ledger *)

InFlight(r) == pc[r] \notin {"idle", "done"}

MintsTo(a) == {h \in 1..Len(mints) : mints[h].to = a}

ConfirmedMintsTo(a) == {h \in MintsTo(a) : mints[h].status = "success"}

\* C1: two claim requests for the same address that are in flight at the same
\* time never both submit a mint, even when no RPC call or file access fails.
C1_OneMintUnderConcurrency ==
    \A r1, r2 \in Requests :
        (/\ r1 # r2
         /\ InFlight(r1) /\ InFlight(r2)
         /\ ToLowerCase(req[r1].address) = ToLowerCase(req[r2].address)
         /\ req[r1].timestamp # req[r2].timestamp
         /\ faults = 0)
        => ~(st[r1].mintHash # 0 /\ st[r2].mintHash # 0)

\* C2: over claim requests that never overlap, at most one mint to any one
\* address is ever confirmed on chain.
C2_OneConfirmedMintPerAddress ==
    \A a \in LowerAddrs : Cardinality(ConfirmedMintsTo(a)) <= 1

\* C3: every ClaimRecord in the ledger names a mint transaction to the record's
\* address, of the record's amount, whose receipt has status success; a mint
\* that reverted, was never submitted or is still pending has no record.
C3_RecordOnlyAfterConfirmedMint ==
    \A i \in 1..Len(claimsFile) :
        LET rec == claimsFile[i]
        IN  /\ rec.txHash \in 1..Len(mints)
            /\ mints[rec.txHash].status = "success"
            /\ mints[rec.txHash].to = rec.address
            /\ mints[rec.txHash].amount = rec.amount

\* C3 happens: one claim was recorded after its mint succeeded, and a mint to
\* another address that reverted left that address without a record.
C3_Witness ==
    /\ Len(claimsFile) > 0
    /\ \E h \in 1..Len(mints) :
         /\ mints[h].status = "reverted"
         /\ ~MapHas(claimsFile, mints[h].to)

\* C10: once the balance read of a request has returned a value above zero,
\* getClaimableAmount answers alreadyClaimed = true, canClaim = false and
\* amount = 0, whether or not a local record exists, and the request never
\* calls the score provider.
C10_BalanceProxy ==
    \A r \in Requests :
        st[r].claimedOnChain =>
            \/ pc[r] = "record"
            \/ /\ pc[r] = "done"
               /\ st[r].claimStatus.alreadyClaimed
               /\ ~st[r].claimStatus.canClaim
               /\ st[r].claimStatus.amount = 0
               /\ resp[r].alreadyClaimed
               /\ r \notin providerCalls

\* C10 happens: a request found a positive balance and no local record, and
\* was answered "already claimed".
C10_Witness ==
    \E r \in Requests :
        /\ pc[r] = "done"
        /\ st[r].claimedOnChain
        /\ st[r].claimStatus.alreadyClaimed
        /\ st[r].claimStatus.claimRecord = NoRecord
        /\ claimsFile = <<>>

\* C11: once a ClaimRecord is in the ledger, no later step changes any of its
\* fields or removes it (here already without any failed call).
C11_RecordImmutable ==
    [][faults' = 0 =>
          \A i \in 1..Len(claimsFile) :
              \E j \in 1..Len(claimsFile') : claimsFile'[j] = claimsFile[i]]_vars

\* C12: when two claim requests for different addresses have both come back
\* from recordClaim with success, however their load and save steps
\* interleaved, the ledger holds the records of both addresses.
C12_ConcurrentRecordsKept ==
    \A r1, r2 \in Requests :
        (/\ r1 # r2
         /\ faults = 0
         /\ pc[r1] = "done" /\ resp[r1].success
         /\ pc[r2] = "done" /\ resp[r2].success
         /\ mints[resp[r1].txHash].to # mints[resp[r2].txHash].to)
        => /\ MapHas(claimsFile, mints[resp[r1].txHash].to)
           /\ MapHas(claimsFile, mints[resp[r2].txHash].to)

\* C17 as stated: every answer with alreadyClaimed = true carries a claimRecord.
C17_AlreadyClaimedHasRecord ==
    \A r \in Requests :
        (pc[r] = "done" /\ resp[r].alreadyClaimed)
        => resp[r].claimRecord # NoRecord

\* C17 amended: when the ledger holds a record for the address and the read of
\* the ledger succeeds, the request is answered 400 with alreadyClaimed = true
\* and that record's txHash and amount.
C17_ExistingRecordReturned ==
    [][\A r \in Requests :
          (/\ pc[r] = "record" /\ pc'[r] # "record"
           /\ faults' = faults
           /\ MapHas(claimsFile, req[r].address))
          => /\ pc'[r] = "done"
             /\ resp'[r].status = 400
             /\ ~resp'[r].success
             /\ resp'[r].alreadyClaimed
             /\ resp'[r].claimRecord.txHash
                  = MapGet(claimsFile, req[r].address).txHash
             /\ resp'[r].claimRecord.amount
                  = MapGet(claimsFile, req[r].address).amount]_vars

\* C17 happens: a second request for a recorded address was answered "already
\* claimed" with the record of the first mint.
C17_Witness ==
    \E r \in Requests :
        /\ pc[r] = "done"
        /\ resp[r].alreadyClaimed
        /\ resp[r].claimRecord \in {claimsFile[i] : i \in 1..Len(claimsFile)}
        /\ mints[resp[r].claimRecord.txHash].status = "success"

\* C16: while the configured policy id is zero, no mint and no
\* modifyPolicyWhitelist transaction is submitted and no claim request is
\* answered with success.
C16_ZeroPolicyRefused ==
    policyId = 0 =>
        /\ mints = <<>>
        /\ regTxs = <<>>
        /\ \A r \in Requests : ~resp[r].success

----------------------------------------------------------------------------
(* Properties of the signature verification gate *)

\* handler.POST deals with request r in this step
HandledNow(r) == pc[r] = "arrived" /\ pc'[r] # "arrived"

\* The timestamp is not a number, lies in the future, or is older than the
\* window
Stale(b) ==
    \/ b.tsType # "number"
    \/ b.timestamp > b.now
    \/ b.now - b.timestamp > 5 * 60 * 1000

\* The body gets as far as the freshness check: address, signature and a
\* non-zero timestamp are there and the address is well-formed
ReachesFreshnessCheck(b) ==
    /\ b.address # ""
    /\ b.signature.kind # "none"
    /\ b.timestamp # 0
    /\ AddressFormatOk(ToLowerCase(b.address))

RejectedAsExpired(response) ==
    response.status = 400 /\ response.error = "Signature expired"

\* C13 as stated: a request is rejected as expired if and only if its timestamp
\* is not a number, is in the future, or is older than the window.
C13_ExpiredIffStale ==
    [][\A r \in Requests :
          HandledNow(r) => (RejectedAsExpired(resp'[r]) <=> Stale(req[r]))]_vars

\* C13 amended: ... for a request that carries a well-formed address, a
\* signature and a non-zero timestamp; an age equal to the window passes the
\* freshness check, an age one unit larger does not.
C13_ExpiredIffStaleWhenChecked ==
    [][\A r \in Requests :
          (HandledNow(r) /\ ReachesFreshnessCheck(req[r]))
          => (RejectedAsExpired(resp'[r]) <=> Stale(req[r]))]_vars

\* C13 happens: one request whose age equals the window went past the gate and
\* another request was rejected as expired.
C13_Witness ==
    \E r1, r2 \in Requests :
        /\ pc[r1] = "balance"
        /\ req[r1].now - req[r1].timestamp = MAX_SIGNATURE_AGE_MS
        /\ pc[r2] = "done"
        /\ RejectedAsExpired(resp[r2])

\* The proof of ownership is expired, missing, unparsable, or not made by the
\* claimed address over the claim message
BadProof(b) ==
    \/ Stale(b)
    \/ b.signature.kind # "signed"
    \/ b.signature.signer # ToLowerCase(b.address)
    \/ b.signature.message # <<ToLowerCase(b.address), b.timestamp>>

\* C14: a request with an expired, malformed or non-verifying signature is
\* answered with a 4xx in the step that handles it, without having called the
\* provider, and that step leaves balances, mints, the ledger and the registry
\* as they were.
C14_RejectedBeforeAnyAccess ==
    [][\A r \in Requests :
          (HandledNow(r) /\ BadProof(req[r]))
          => /\ pc'[r] = "done"
             /\ ~resp'[r].success
             /\ resp'[r].status \in {400, 403}
             /\ r \notin providerCalls'
             /\ UNCHANGED <<balance, mints, claimsFile, providerCalls,
                            authorized, regTxs>>]_vars

\* C14 happens: a signature by another address was refused with 403 and an
\* unparsable one with 400.
C14_Witness ==
    \E r1, r2 \in Requests :
        /\ pc[r1] = "done" /\ resp[r1].status = 403
        /\ pc[r2] = "done" /\ resp[r2].error = "Invalid signature format"
        /\ mints = <<>> /\ claimsFile = <<>> /\ providerCalls = {}

\* C15: no two requests carrying the same (address, signature, timestamp) have
\* both been let through the gate.
C15_NoReplay ==
    \A r1, r2 \in Requests :
        (r1 # r2 /\ pc[r1] = "balance" /\ pc[r2] = "balance")
        => <<req[r1].address, req[r1].signature, req[r1].timestamp>>
           # <<req[r2].address, req[r2].signature, req[r2].timestamp>>

----------------------------------------------------------------------------
(* Properties of the client functions *)

\* C18: getUserData and getScoreByAddress answer null only for a definitive
\* not-found; after a network failure or a non-2xx status other than 404 the
\* caller gets an error, not null.
C18_NullOnlyForNotFound ==
    /\ (call.fn = "getUserData" /\ HttpFailed(call.http))
         => (call.threw \/ call.user # NoUser)
    /\ (call.fn = "getScoreByAddress" /\ HttpFailed(call.http))
         => (call.threw \/ call.score # NoScore)

\* C19: the map getScoresByAddresses returns has exactly one key per requested
\* address, in lower case, and null for each address the provider does not
\* know.
C19_BulkKeepsRequestedSet ==
    call.fn = "getScoresByAddresses" =>
        LET asked == {ToLowerCase(call.addresses[i]) :
                         i \in 1..Len(call.addresses)}
        IN  /\ DOMAIN call.scores = asked
            /\ \A k \in asked : ~provider[k].found => call.scores[k] = NoScore

\* C20: when the isAuthorized read fails, checkAuthorization does not answer
\* the definitive false.
C20_ReadFailureNotFalse ==
    (call.fn = "checkAuthorization" /\ ~call.readOk)
        => (call.threw \/ call.isAuthorized # FALSE)

----------------------------------------------------------------------------
(* Properties of the ledger functions *)

\* The records a complete file holds, as stored
StoredRecords == IF ParsesAsJson(claimsFile) THEN claimsFile ELSE <<>>

\* C23: whatever the casing of the addresses recordClaim was called with, the
\* file holds at most one record per address ignoring case, every stored
\* record's address is in lower case, and hasClaimed and getClaimRecord answer
\* the same for every casing of an address.
C23_CanonicalAddresses ==
    /\ \A i, j \in 1..Len(StoredRecords) :
         ToLowerCase(StoredRecords[i].address) = ToLowerCase(StoredRecords[j].address)
            => i = j
    /\ \A i \in 1..Len(StoredRecords) :
         StoredRecords[i].address = ToLowerCase(StoredRecords[i].address)
    /\ \A a, b \in LedgerAddrs, readOk \in BOOLEAN :
         ToLowerCase(a) = ToLowerCase(b) =>
            /\ hasClaimed(claimsFile, readOk, a) = hasClaimed(claimsFile, readOk, b)
            /\ getClaimRecord(claimsFile, readOk, a)
                 = getClaimRecord(claimsFile, readOk, b)
    /\ call.fn = "getClaimRecord" =>
         call.record.address \in {"", ToLowerCase(call.address)}

\* C23 happens: recordClaim was called for 0xaa and then for 0xAA, the file
\* holds the one record of the later call, and a lookup of 0xAA found it.
C23_Witness ==
    \E r1, r2 \in Requests :
        /\ pc[r1] = "returned" /\ req[r1].address = "0xaa" /\ resp[r1].success
        /\ pc[r2] = "returned" /\ req[r2].address = "0xAA" /\ resp[r2].success
        /\ Len(claimsFile) = 1
        /\ claimsFile[1].address = "0xaa"
        /\ claimsFile[1].txHash = r2
        /\ call.fn = "getClaimRecord" /\ call.address = "0xAA"
        /\ call.record = claimsFile[1]

\* C25: the file is a complete ledger at every moment a reader may look at it,
\* and a step in which a write fails leaves every stored record in place.
C25_AtomicRewrite ==
    ParsesAsJson(claimsFile)

----------------------------------------------------------------------------
(* Properties of token amounts *)

\* C21: for an XP total of one or more, the claimable amount is a whole number
\* of tokens in minor units, that number is the largest integer not above the
\* XP total (never rounded up, no fractional part), and it depends on the XP
\* total alone.
C21_AmountTruncates ==
    (call.fn = "getClaimableAmount" /\ call.xp >= 10) =>
        LET tokens == call.amount \div 1000000
        IN  /\ call.amount = tokens * 1000000
            /\ tokens * 10 <= call.xp
            /\ call.xp < (tokens + 1) * 10

\* C21 happens: XP 250.7 gave 250 tokens.
C21_Witness ==
    /\ call.fn = "getClaimableAmount"
    /\ call.xp = 2507
    /\ call.amount = 250 * 1000000

\* C22: an amount formatted by formatTokenAmount and parsed by parseTokenAmount
\* comes back as the same number of minor units.
C22_RoundTrip ==
    call.fn = "parseTokenAmount" =>
        ~call.threw /\ call.parsed = call.amount

----------------------------------------------------------------------------
(* Properties of the bulk whitelist tools *)

\* C24: the transactions a bulk tool signs and sends in one run carry the
\* nonces n, n+1, n+2, ... in the order they are sent, n being the transaction
\* count the run started from; in particular no two of them carry the same
\* nonce.
C24_SequentialNonces ==
    \A i \in 1..Len(bulk.sent) :
        bulk.sent[i].nonce = bulk.sent[1].nonce + (i - 1)

\* C27: an address is classified eligible exactly when it has a score and the
\* score is at least 1400: by isAddressEligible on a single lookup and by
\* filterEligibleAddresses on a bulk lookup; a higher score is never less
\* eligible than a lower one, and an address without a score is not eligible.
C27_EligibilityThreshold ==
    /\ call.fn = "isAddressEligible" =>
          /\ call.eligible <=> (call.score # NoScore /\ call.score.score >= 1400)
          /\ \A n \in ThresholdScores :
                (call.score # NoScore /\ n >= call.score.score /\ call.eligible)
                   => isAddressEligible(Score(n))
    /\ call.fn = "filterEligibleAddresses" =>
          \A k \in DOMAIN call.scores :
              k \in call.eligibleSet <=>
                 (call.scores[k] # NoScore /\ call.scores[k].score >= 1400)

\* C27 happens: a score of exactly 1400 was classified eligible.
C27_Witness ==
    /\ call.fn = "isAddressEligible"
    /\ call.score = Score(1400)
    /\ call.eligible

----------------------------------------------------------------------------
(* Properties of whitelist reconciliation *)

RunIds == 1..Len(runs)

\* The registry transactions one run submitted
RunTxs(k) == {h \in 1..Len(regTxs) : regTxs[h].run = k}

\* Eligibility as the provider's data defines it
IsEligible(a) == provider[a].found /\ provider[a].score >= MIN_ETHOS_SCORE

\* The call came back with a result: its loop ended, or the outer catch did
Returned(k) ==
    \/ runs[k].complete
    \/ \E i \in 1..Len(runs[k].result.errors) :
         runs[k].result.errors[i].kind = "sync"

AllTxsSucceeded(k) == \A h \in RunTxs(k) : regTxs[h].status = "success"

\* Every read, submission and confirmation of the run succeeded
CleanRun(k) ==
    /\ runs[k].complete
    /\ runs[k].fetchOk
    /\ runs[k].result.errors = <<>>
    /\ AllTxsSucceeded(k)

ErrorFor(k, address) ==
    \E i \in 1..Len(runs[k].result.errors) :
        /\ runs[k].result.errors[i].address = address
        /\ runs[k].result.errors[i].kind \in {"add", "remove"}

Listed(k, address) ==
    \/ \E i \in 1..Len(runs[k].result.added) : runs[k].result.added[i] = address
    \/ \E i \in 1..Len(runs[k].result.removed) : runs[k].result.removed[i] = address

\* C4: a run whose bulk score fetch failed submits no transaction and returns
\* checked = N, added and removed empty, and a non-empty errors list.
C4_ProviderOutage ==
    \A k \in RunIds :
        (~runs[k].fetchOk /\ Returned(k)) =>
            /\ runs[k].result.checked = Len(runs[k].addresses)
            /\ runs[k].result.added = <<>>
            /\ runs[k].result.removed = <<>>
            /\ runs[k].result.errors # <<>>
            /\ RunTxs(k) = {}

\* C5: in a run whose reads and writes all succeed, a candidate gets an
\* authorizing transaction exactly when it is eligible and was read as
\* unauthorized, a deauthorizing one exactly when it is ineligible and was read
\* as authorized, and none otherwise; added and removed list exactly those
\* candidates, in order, and the run submits no other transaction.
C5_MinimalDiff ==
    \A k \in RunIds :
        CleanRun(k) =>
            LET log  == runs[k].log
                Tx(e) == regTxs[e.hash]
                adds == SelectSeq(log, LAMBDA e : e.hash # 0 /\ Tx(e).allowed)
                rems == SelectSeq(log, LAMBDA e : e.hash # 0 /\ ~Tx(e).allowed)
            IN  /\ Len(log) = Len(runs[k].addresses)
                /\ \A i \in 1..Len(log) :
                     LET e == log[i]
                     IN  /\ e.address = ToLowerCase(runs[k].addresses[i])
                         /\ (IsEligible(e.address) /\ e.read = "false") =>
                              /\ e.hash \in RunTxs(k)
                              /\ Tx(e).address = e.address
                              /\ Tx(e).policyId = policyId
                              /\ Tx(e).allowed
                         /\ (~IsEligible(e.address) /\ e.read = "true") =>
                              /\ e.hash \in RunTxs(k)
                              /\ Tx(e).address = e.address
                              /\ Tx(e).policyId = policyId
                              /\ ~Tx(e).allowed
                         /\ (IsEligible(e.address) <=> e.read = "true") =>
                              e.hash = 0
                /\ RunTxs(k) = {log[i].hash : i \in 1..Len(log)} \ {0}
                /\ runs[k].result.added = [i \in 1..Len(adds) |-> adds[i].address]
                /\ runs[k].result.removed = [i \in 1..Len(rems) |-> rems[i].address]

\* C5 happens: the run over A (1500, unauthorized), B (1000, unauthorized) and
\* C (1600, authorized) returned added = [A], removed = [] after one transaction.
C5_Witness ==
    \E k \in RunIds :
        /\ CleanRun(k)
        /\ runs[k].addresses = <<"0xaa", "0xbb", "0xcc">>
        /\ provider["0xaa"].score = 1500
        /\ [i \in 1..3 |-> runs[k].log[i].read] = <<"false", "false", "true">>
        /\ runs[k].result.added = <<"0xaa">>
        /\ runs[k].result.removed = <<>>
        /\ Cardinality(RunTxs(k)) = 1

WriteFailure(e) ==
    \/ e.wait \in {"unsent", "threw"}
    \/ e.wait = "returned" /\ regTxs[e.hash].status = "reverted"

\* C6: when one candidate's transaction fails to submit, reverts, or its
\* confirmation wait throws, the failure is recorded in errors for that address,
\* the address is not reported as added or removed, and every later candidate
\* is still read.
C6_WriteFailureIsolation ==
    \A k \in RunIds :
        \A i \in 1..Len(runs[k].log) :
            (runs[k].complete /\ WriteFailure(runs[k].log[i])) =>
                /\ ErrorFor(k, runs[k].log[i].address)
                /\ ~Listed(k, runs[k].log[i].address)
                /\ Len(runs[k].log) = Len(runs[k].addresses)

\* C7: when the isAuthorized read for one candidate fails, no transaction is
\* submitted for it, errors gets an entry, and all remaining candidates are
\* still processed.
C7_ReadFailureIsolation ==
    \A k \in RunIds :
        \A i \in 1..Len(runs[k].log) :
            (Returned(k) /\ runs[k].log[i].read = "failed") =>
                /\ runs[k].log[i].hash = 0
                /\ runs[k].result.errors # <<>>
                /\ Len(runs[k].log) = Len(runs[k].addresses)

\* Two calls in a row over the same candidates, the provider answering both
\* times, no other transaction in flight when the first began
RunTwice(k) ==
    /\ k \in 2..Len(runs)
    /\ Returned(k - 1)
    /\ runs[k].addresses = runs[k - 1].addresses
    /\ runs[k - 1].fetchOk /\ runs[k].fetchOk
    /\ runs[k - 1].quiet

SecondRunEmpty(k) ==
    /\ runs[k].result.added = <<>>
    /\ runs[k].result.removed = <<>>
    /\ RunTxs(k) = {}

Interrupted(k) == ~runs[k].complete \/ runs[k].result.errors # <<>>

\* C9: after an interrupted run, once a later run with the same scores has
\* gone through all its candidates with no failure, every candidate of that run
\* is authorized under the policy if and only if it is eligible.
C9_Convergence ==
    \A k \in RunIds :
        (/\ sync.pc = "idle"
         /\ k = Len(runs)
         /\ \E j \in 1..(k - 1) : Interrupted(j)
         /\ \A j \in 1..k : runs[j].fetchOk
         /\ CleanRun(k))
        => \A i \in 1..Len(runs[k].addresses) :
              LET a == ToLowerCase(runs[k].addresses[i])
              IN  authorized[a] <=> IsEligible(a)

\* C9 happens: the first run left a candidate unreconciled and the second run
\* had to submit the missing transaction.
C9_Witness ==
    /\ sync.pc = "idle"
    /\ Len(runs) = 2
    /\ Interrupted(1) /\ runs[1].fetchOk
    /\ CleanRun(2)
    /\ RunTxs(2) # {}
    /\ \E i \in 1..Len(runs[2].addresses) :
         authorized[ToLowerCase(runs[2].addresses[i])]

\* C28: an address is listed in added or removed only if a transaction of the
\* run for it has a receipt with status success; a candidate whose transaction
\* came back reverted has an entry in errors and is not listed.
C28_ListedOnlyAfterSuccess ==
    \A k \in RunIds :
        /\ \A a \in SyncAddrs :
             Listed(k, a) =>
                \E h \in RunTxs(k) :
                    regTxs[h].address = a /\ regTxs[h].status = "success"
        /\ \A i \in 1..Len(runs[k].log) :
             LET e == runs[k].log[i]
             IN  (e.wait = "returned" /\ regTxs[e.hash].status = "reverted") =>
                    /\ ErrorFor(k, e.address)
                    /\ ~Listed(k, e.address)

----------------------------------------------------------------------------
(* Waits that end without a receipt, and the add call *)

\* The result syncWhitelist holds after a step (returned, or still in the loop)
SyncResultAfter ==
    IF Len(runs') > Len(runs) THEN runs'[Len(runs')].result ELSE sync'.result

C29_AddLikeSyncOfOne ==
    call.fn = "addToWhitelistIfEligible" =>
        LET a == ToLowerCase(call.address)
        IN  /\ call.hash # 0 =>
                  /\ isAddressEligible(provider[a])
                  /\ ~call.wasAuthorized
            /\ ( /\ call.pc = "returned"
                 /\ call.readOk
                 /\ provider[a].found
                 /\ ~isAddressEligible(provider[a]) )
               => /\ call.hash = 0
                  /\ ~call.success
                  /\ call.error = [kind |-> "below", score |-> provider[a]]

\* C30: every step of syncWhitelist and addToWhitelistIfEligible, and every
\* transaction of theirs being mined, leaves the token's transfer policy id,
\* the registry's policy counter and the mints as they were; every registry
\* transaction and every isAuthorized read carries the configured policy id.
C30_OnlyActivePolicy ==
    [][ (sync' # sync \/ call' # call \/ regTxs' # regTxs \/ runs' # runs)
        => /\ UNCHANGED <<chain, mints, balance, policyId, wallet>>
           /\ \A h \in 1..Len(regTxs') : regTxs'[h].policyId = policyId
           /\ \A i \in 1..Len(sync'.log) : sync'.log[i].policy = policyId
           /\ \A k \in 1..Len(runs') :
                \A i \in 1..Len(runs'[k].log) :
                    runs'[k].log[i].policy = policyId
      ]_vars

\* An add call whose transaction was mined and set the authorization
C30_Witness ==
    /\ call.fn = "addToWhitelistIfEligible"
    /\ call.pc = "returned"
    /\ call.success
    /\ regTxs[call.hash].status = "success"
    /\ authorized[ToLowerCase(call.address)]
    /\ ~call.wasAuthorized

----------------------------------------------------------------------------
(* Score levels *)

\* The levels in ascending order
LevelRank(level) ==
    CASE level = "untrusted"    -> 1
      [] level = "questionable" -> 2
      [] level = "neutral"      -> 3
      [] level = "reputable"    -> 4
      [] level = "exemplary"    -> 5
      [] OTHER                  -> 0

\* C35: getScoreLevel gives every integer score exactly the level of the
\* closed-open range it lies in (below 800, 800 to 1199, 1200 to 1599, 1600 to
\* 1999, 2000 and above), and a score that is not lower never gets a lower
\* level.
C35_ScoreLevelPartition ==
    call.fn = "getScoreLevel" =>
        LET n == call.score.score
        IN  /\ call.level = "untrusted"    <=> n < 800
            /\ call.level = "questionable" <=> (800 <= n /\ n < 1200)
            /\ call.level = "neutral"      <=> (1200 <= n /\ n < 1600)
            /\ call.level = "reputable"    <=> (1600 <= n /\ n < 2000)
            /\ call.level = "exemplary"    <=> 2000 <= n
            /\ LevelRank(call.level) \in 1..5
            /\ \A m \in LevelScores :
                 m <= n => LevelRank(getScoreLevel(m)) <= LevelRank(call.level)

\* The score on a boundary was given the upper level
C35_Witness ==
    /\ call.fn = "getScoreLevel"
    /\ call.score.score = 1600
    /\ call.level = "reputable"

----------------------------------------------------------------------------
(* What getClaimableAmount answers *)

\* C32: for an address with zero balance and no record, "No Ethos profile
\* found" is answered only when the provider said the address has no profile,
\* the "no Contributor XP yet" message only when it has a profile and XP zero,
\* and neither of the two when an exchange with the provider failed.
C32_DistinctReasons ==
    (call.fn = "getClaimableAmount" /\ ~call.status.canClaim) =>
        /\ call.status.error = "No Ethos profile found" =>
              call.scoreHttp = "notFound"
        /\ call.status.error = "No Contributor XP yet" =>
              (call.scoreHttp = "ok" /\ call.status.xp = 0)
        /\ (HttpFailed(call.http) \/ HttpFailed(call.scoreHttp)) =>
              call.status.error \notin {"No Ethos profile found",
                                        "No Contributor XP yet"}

\* C36: an answer of getClaimableAmount with canClaim true has an amount above
\* zero.
C36_ClaimablePositive ==
    (call.fn = "getClaimableAmount" /\ call.status.canClaim) =>
        call.status.amount > 0

----------------------------------------------------------------------------
(* What a run of syncWhitelist reports, and the cache it leaves *)

\* C33: every call of syncWhitelist that returns has the failures it met in
\* its errors list: a failed score fetch leaves errors non-empty, a failed
\* isAuthorized read has the "Sync failed" entry, a submission or a wait that
\* threw has the entry of its address.
C33_ReturnsDescribingFailure ==
    \A k \in RunIds :
        Returned(k) =>
            /\ (~runs[k].fetchOk /\ runs[k].addresses # <<>>) =>
                  runs[k].result.errors # <<>>
            /\ \A i \in 1..Len(runs[k].log) :
                 LET e == runs[k].log[i]
                 IN  /\ e.read = "failed" =>
                           \E j \in 1..Len(runs[k].result.errors) :
                               runs[k].result.errors[j].kind = "sync"
                     /\ e.wait \in {"unsent", "threw"} => ErrorFor(k, e.address)

\* The candidates of a run in canonical form
Canonical(k) ==
    {ToLowerCase(runs[k].addresses[i]) : i \in 1..Len(runs[k].addresses)}

NoDuplicates(seq) ==
    \A i, j \in 1..Len(seq) : seq[i] = seq[j] => i = j

\* C34: a run counts in checked the distinct canonical addresses of its list,
\* reads each of them at most once, and lists none twice in added or removed.
C34_CandidatesDeduplicated ==
    \A k \in RunIds :
        Returned(k) =>
            /\ runs[k].result.checked = Cardinality(Canonical(k))
            /\ NoDuplicates([i \in 1..Len(runs[k].log) |-> runs[k].log[i].address])
            /\ NoDuplicates(runs[k].result.added)
            /\ NoDuplicates(runs[k].result.removed)

\* No call is running and no registry transaction is pending
Quiescent ==
    /\ sync.pc = "idle"
    /\ call.pc \notin {"submit", "wait"}
    /\ \A h \in 1..Len(regTxs) : regTxs[h].status # "pending"

\* C39: once the calls made so far have returned and their transactions are
\* mined, every address isWhitelisted answers true for is authorized in the
\* registry under the configured policy.
C39_CacheWithinChain ==
    Quiescent =>
        \A a \in SyncAddrs : isWhitelisted(a) => authorized[a]

----------------------------------------------------------------------------
(* Properties of the scripts that bind the token to a policy *)

\* The functions of the transactions the script has sent, in order
SentFns ==
    [i \in 1..Len(bulk.sent) |-> regTxs[bulk.sent[i].hash].fn]

C37_AdminAuthorizedAtRebind ==
    [][ ( /\ chain.foreign = {}
          /\ Len(regTxs') = Len(regTxs) + 1
          /\ regTxs'[Len(regTxs')].fn = "changeTransferPolicyId" )
        => IsMember(regTxs'[Len(regTxs')].policyId, Admin)
      ]_vars

\* C38: the policy id a script derives after its policy creation succeeded is
\* the id that creation was given.
C38_DerivedIdIsOwnPolicy ==
    ( /\ bulk.tool \in {"deploy-token", "create-whitelist-batch",
                        "create-whitelist-chunked"}
      /\ bulk.newPolicyId # 0
      /\ regTxs[bulk.sent[1].hash].status = "success" )
    => bulk.newPolicyId = regTxs[bulk.sent[1].hash].policyId

----------------------------------------------------------------------------
(* Manual disconnect (lib/wallet.ts) *)

\* C40: manual disconnect is sticky.  Right after disconnectWallet() every
\* callback that is registered and not unsubscribed has been called exactly
\* once by it and no unsubscribed callback has been called; and every
\* getConnectedAccount() call made after a disconnectWallet() and before the
\* next connectWallet() invocation returns null, whatever accounts the
\* wallet provider exposes.
C40_ManualDisconnectSticky ==
    /\ wallet.op = "disconnectWallet" =>
         \A c \in Callbacks :
           /\ SetHas(wallet.listeners, c) => wallet.called[c] = 1
           /\ c \in wallet.removed => wallet.called[c] = 0
    /\ (wallet.get.pc = "done" /\ wallet.get.sticky) =>
         wallet.get.result = NoItem

\* A wallet exposing accounts, a flag set by disconnectWallet that notified
\* a registered listener while another one had been unsubscribed, and a
\* getConnectedAccount call made and answered during the disconnected period
C40_Witness ==
    /\ isWalletAvailable
    /\ Len(wallet.accounts) > 0
    /\ wallet.op = "disconnectWallet"
    /\ wallet.listeners # <<>>
    /\ wallet.removed # {}
    /\ wallet.sticky
    /\ wallet.get.pc = "done"
    /\ wallet.get.sticky

====
